---- MODULE Spec2Model ----
(***************************************************************************)
(* A model of crewai_log_parser: the log segmenter and usage extraction of *)
(* parse_log_file_v2, the task matcher of ConfigAwareLogParser, the rate   *)
(* scan and latency computation of unified_analysis, and the workflow      *)
(* graph of WorkflowReconstructor.                                         *)
(*                                                                         *)
(* Text.  A log line is a sequence of lexical items (tokens); a text such  *)
(* as litellm_request or raw_response is the sequence of its lines (the    *)
(* code appends line + '\n').  A token is a record [k, v]: k is the        *)
(* literal the code searches for (or a class of characters), v a number    *)
(* carried by the token.  Python's None is the empty tuple, a present      *)
(* optional value x is <<x>>.  Money is counted in units of 1e-8 USD.      *)
(***************************************************************************)
EXTENDS Integers, Sequences, FiniteSets, TLC

VARIABLES
    \* parse_log_file_v2 (log_parser_v2.py)
    lines,            \* the lines read so far
    blocks,           \* the list of closed blocks
    current_block,    \* the open block, or NoBlock
    inside_request,
    inside_response,
    token_usage_info,
    idx,              \* position of the extraction loop
    pc,               \* "scan" | "extract" | "returned" | "raised"
    \* ConfigAwareLogParser._match_task_to_block
    tasks,            \* declaration-ordered task definitions
    block,            \* the block dict handed to the matcher
    task_id,          \* its result
    agents,           \* declaration-ordered agent definitions
    agent_id,         \* the result of _match_agent_to_block
    tool_output,      \* the results of _extract_tool_info
    tool_success,
    \* unified_analysis / analyze_response_times
    parsed_blocks,
    first_blocks,     \* the block sequence as first given (before permuting)
    prompt_token_cost,
    completion_token_cost,
    response_times_map,
    block_costs,
    report,           \* the table unified_analysis returns: None, or its rows
    \* WorkflowReconstructor
    wf_tasks,
    enhanced_blocks,
    nodes,            \* self.nodes: task_id -> WorkflowNode
    mermaid_edges,    \* the "dep --> task_id" lines of the rendered diagram
    mermaid_code,     \* the rendered diagram, line by line
    \* analyze_task_performance / analyze_agent_performance
    task_report,      \* None before the call, then the rows of the frame
    agent_report,
    \* filter_tool_logs (utils/log_filter.py)
    filtered_lines,
    keep_next_n_lines

segVars == <<lines, blocks, current_block, inside_request, inside_response,
             token_usage_info, idx, pc>>
matchVars == <<tasks, block, task_id, agents, agent_id, tool_output, tool_success>>
uaVars == <<parsed_blocks, first_blocks, prompt_token_cost, completion_token_cost,
            response_times_map, block_costs, report>>
wfVars == <<wf_tasks, enhanced_blocks, nodes, mermaid_edges, mermaid_code,
            task_report, agent_report>>
filterVars == <<filtered_lines, keep_next_n_lines>>
vars == <<segVars, matchVars, uaVars, wfVars, filterVars>>
notSeg == <<matchVars, uaVars, wfVars, filterVars>>
notMatch == <<segVars, uaVars, wfVars, filterVars>>
notUa == <<segVars, matchVars, wfVars, filterVars>>
notWf == <<segVars, matchVars, uaVars, filterVars>>

----------------------------------------------------------------------------
(* Bounds of the model *)
MaxLines == 4        \* lines of a log
MaxRespLines == 2    \* lines of a response text in the extraction model
MaxBatch == 3        \* blocks handed to unified_analysis
MaxTasks == 2        \* declared tasks
MaxWfBlocks == 2     \* blocks handed to the reconstructor
MaxSections == 2     \* sections of a log handed to filter_tool_logs

None == <<>>
Some(x) == <<x>>

----------------------------------------------------------------------------
(* Tokens *)
ReqMarker == "Request to litellm:"
RawMarker == "RAW RESPONSE:"
ApiErrMarker == "APIStatusError"
CostMarker == "response_cost:"
UsageOpen == "\"usage\": {"
BraceOpen == "{"
BraceClose == "}"
PromptKey == "prompt_tokens"
CompletionKey == "completion_tokens"
TotalKey == "total_tokens"
PromptRateKey == "prompt_token_cost"
CompletionRateKey == "completion_token_cost"

Tok(k, v) == [k |-> k, v |-> v]
W(n) == Tok("word", n)            \* plain text without digits or markers
Sp == Tok("space", 0)             \* white space
Ts(n) == Tok("timestamp", n)      \* "2024-01-01 00:00:0n"
Num(n) == Tok("number", n)        \* a decimal numeral of value n
Dots == Tok("dots", 0)            \* characters of [0-9.] that are no numeral: "."
\* a JSON member "key": v; v = -1 stands for the value null
Field(k, v) == Tok(k, v)

Contains(line, k) == \E i \in 1..Len(line) : line[i].k = k

RECURSIVE Flatten(_)
Flatten(text) == IF text = <<>> THEN <<>> ELSE Head(text) \o Flatten(Tail(text))

\* str.strip(): leading and trailing white space removed
RECURSIVE LStrip(_)
LStrip(line) ==
    IF line # <<>> /\ Head(line) = Sp THEN LStrip(Tail(line)) ELSE line
RECURSIVE RStrip(_)
RStrip(line) ==
    IF line # <<>> /\ line[Len(line)] = Sp
    THEN RStrip(SubSeq(line, 1, Len(line) - 1)) ELSE line
Strip(line) == RStrip(LStrip(line))

----------------------------------------------------------------------------
(* extract_token_usage (log_parser_v2.py) *)
FieldKeys == {PromptKey, CompletionKey, TotalKey, PromptRateKey, CompletionRateKey}
IsMember(tok) == tok.k \in FieldKeys

\* the first run of digits a token holds (re \d+), or None
Digits(tok) ==
    IF tok.k \in FieldKeys \cup {"number"} /\ tok.v >= 0 THEN Some(tok.v)
    ELSE IF tok.k = "timestamp" THEN Some(2024)
    ELSE None

Min(S) == CHOOSE m \in S : \A n \in S : m <= n
Max(S) == CHOOSE m \in S : \A n \in S : m >= n

\* json.loads of the members between the braces: the last member of a key wins
JsonObject(members) ==
    LET keys == {members[i].k : i \in 1..Len(members)}
        last(k) == CHOOSE i \in 1..Len(members) :
                      /\ members[i].k = k
                      /\ \A j \in (i+1)..Len(members) : members[j].k # k
    IN [k \in keys |-> members[last(k)].v]

\* Strategy (1): re.search of
\*   "usage":\s*({[^}]*"prompt_tokens":[^}]*"completion_tokens":[^}]*"total_tokens":[^}]*})
\* over the text: the leftmost "usage": { from which the three labels follow in
\* this order before the first '}'.  The result is <<first, last>> or None.
UsageMatch(toks) ==
    LET close(i) == {j \in (i+1)..Len(toks) : toks[j].k = BraceClose}
        ordered(i, e) == \E a, b, c \in (i+1)..(e-1) :
                            /\ a < b /\ b < c
                            /\ toks[a].k = PromptKey
                            /\ toks[b].k = CompletionKey
                            /\ toks[c].k = TotalKey
        starts == {i \in 1..Len(toks) :
                      /\ toks[i].k = UsageOpen
                      /\ close(i) # {}
                      /\ ordered(i, Min(close(i)))}
    IN IF starts = {} THEN None
       ELSE <<Min(starts), Min(close(Min(starts)))>>

\* json.loads("{" + group(0) + "}") succeeds when the matched span holds only
\* members and white space (a nested '{', or any other text, is a decode error)
SpanIsJson(toks, m) ==
    \A i \in (m[1]+1)..(m[2]-1) : IsMember(toks[i]) \/ toks[i] = Sp

SpanMembers(toks, m) ==
    SelectSeq(SubSeq(toks, m[1]+1, m[2]-1), IsMember)

\* Strategy (2): re.search(r'"<key>":\s*(\d+)') anywhere in the text
FirstNumeric(toks, key) ==
    LET hits == {i \in 1..Len(toks) : toks[i].k = key /\ toks[i].v >= 0}
    IN IF hits = {} THEN None ELSE Some(toks[Min(hits)].v)

\* re.search(r'\d+', line)
LineDigits(line) ==
    LET hits == {i \in 1..Len(line) : Digits(line[i]) # None}
    IN IF hits = {} THEN None ELSE Digits(line[Min(hits)])

\* Strategy (3): the loop over raw_text.split('\n'); acc is
\* <<prompt_tokens, completion_tokens, total_tokens>>
ScanLine(acc, line) ==
    LET d == LineDigits(line)
        upd(old, key) == IF Contains(line, key) /\ d # None THEN d[1] ELSE old
    IN <<upd(acc[1], PromptKey), upd(acc[2], CompletionKey), upd(acc[3], TotalKey)>>

RECURSIVE ScanLines(_, _)
ScanLines(acc, text) ==
    IF text = <<>> THEN acc ELSE ScanLines(ScanLine(acc, Head(text)), Tail(text))

Triple(p, c, t) == (PromptKey :> p) @@ (CompletionKey :> c) @@ (TotalKey :> t)

\* the variant that adds up whatever was found when the total is missing
Strategy3TotalFromEither(raw_text) ==
    LET acc == ScanLines(<<0, 0, 0>>, raw_text)
        total == IF acc[3] = 0 THEN acc[1] + acc[2] ELSE acc[3]
    IN IF acc[1] # 0 \/ acc[2] # 0 \/ acc[3] # 0
       THEN Triple(acc[1], acc[2], total)
       ELSE <<>>

\* lines 88-120
Strategy3(raw_text) ==
    LET acc == ScanLines(<<0, 0, 0>>, raw_text)
        total == IF acc[3] = 0 /\ acc[1] # 0 /\ acc[2] # 0
                 THEN acc[1] + acc[2] ELSE acc[3]
    IN IF acc[1] # 0 \/ acc[2] # 0 \/ acc[3] # 0
       THEN Triple(acc[1], acc[2], total)
       ELSE <<>>

Strategy2(raw_text) ==
    LET toks == Flatten(raw_text)
        p == FirstNumeric(toks, PromptKey)
        c == FirstNumeric(toks, CompletionKey)
        t == FirstNumeric(toks, TotalKey)
    IN IF p # None /\ c # None /\ t # None
       THEN Triple(p[1], c[1], t[1])
       ELSE Strategy3(raw_text)

\* the variant that never looks for the usage object
SkipUsageObject(raw_text) == Strategy2(raw_text)

\* lines 53-120.  The usage dict is a function from keys to numbers (-1: None);
\* {} is <<>>
extract_token_usage(raw_text) ==
    LET toks == Flatten(raw_text)
        m == UsageMatch(toks)
    IN IF m # None /\ SpanIsJson(toks, m)
       THEN JsonObject(SpanMembers(toks, m))
       ELSE Strategy2(raw_text)

UsageGet(usage, key) == IF key \in DOMAIN usage THEN usage[key] ELSE 0

\* default rates, in units of 1e-8 USD per token
DefaultPromptRate == 15
DefaultCompletionRate == 60

\* the variant with the two rates exchanged
CostSwapped(usage) ==
    DefaultCompletionRate * UsageGet(usage, PromptKey)
        + DefaultPromptRate * UsageGet(usage, CompletionKey)

\* line 257: the product of None and a float raises TypeError
CostRaises(usage) ==
    UsageGet(usage, PromptKey) < 0 \/ UsageGet(usage, CompletionKey) < 0
Cost(usage) ==
    UsageGet(usage, PromptKey) * DefaultPromptRate
    + UsageGet(usage, CompletionKey) * DefaultCompletionRate

----------------------------------------------------------------------------
(* parse_log_file_v2 (log_parser_v2.py): the scan over the lines *)
\* the variant in which the scan starts with an empty block already open
EmptyOpenBlock ==
    [task_hint |-> <<>>, litellm_request |-> <<>>, raw_response |-> <<>>,
     thought |-> <<>>, action |-> <<>>, final_answer |-> <<>>,
     parsed_usage |-> <<>>, parsing_error |-> FALSE,
     start_time |-> <<>>, end_time |-> <<>>, model |-> <<>>,
     api_errors |-> <<>>]

NoBlock == [none |-> TRUE]                \* current_block = None
IsOpen(cb) == "none" \notin DOMAIN cb     \* the truth value of current_block

\* re.match(r"(\d{4}-\d{2}-\d{2} \d{2}:\d{2}:\d{2})", line)
TimestampMatch(line) ==
    IF line # <<>> /\ line[1].k = "timestamp" THEN Some(line[1].v) ELSE None

NewBlock(timestamp, line) ==
    [task_hint |-> <<>>, litellm_request |-> <<line>>, raw_response |-> <<>>,
     thought |-> <<>>, action |-> <<>>, final_answer |-> <<>>,
     parsed_usage |-> <<>>, parsing_error |-> FALSE,
     start_time |-> timestamp, end_time |-> None, model |-> None,
     api_errors |-> <<>>]

\* re.search(r"response_cost:\s*([0-9.]+)", line): the text matched by the
\* group, as the token that follows the leftmost marker it can follow
CostMatch(line) ==
    LET after(i) == {j \in (i+1)..Len(line) : line[j] # Sp}
        ok(i) == /\ line[i].k = CostMarker
                 /\ after(i) # {}
                 /\ line[Min(after(i))].k \in {"number", "dots", "timestamp"}
        hits == {i \in 1..Len(line) : ok(i)}
    IN IF hits = {} THEN None ELSE Some(line[Min(after(Min(hits)))])

\* float(cost_match.group(1)) raises ValueError on "." or "1.2.3"
FloatRaises(tok) == tok.k = "dots"
Float(tok) == IF tok.k = "timestamp" THEN 2024 ELSE tok.v

\* The lines a log may hold
SegLines ==
    { <<W(1)>>,
      <<Ts(1), Tok(ReqMarker, 0), W(1)>>,
      <<Ts(2), Tok(ReqMarker, 0)>>,
      <<Tok(RawMarker, 0)>>,
      <<Sp, Tok(ApiErrMarker, 0), W(1), Sp>>,
      <<Tok(ApiErrMarker, 0), W(2)>>,
      <<Tok(CostMarker, 0), Sp, Num(5)>>,
      <<Tok(CostMarker, 0), Dots>>,
      <<Tok(RawMarker, 0), Tok(ApiErrMarker, 0)>>,
      <<Tok(CostMarker, 0), Tok(RawMarker, 0)>>,
      <<Tok(ApiErrMarker, 0), Tok(ReqMarker, 0)>>,
      <<Tok(UsageOpen, 0), Field(PromptKey, 10), Field(CompletionKey, 5),
        Field(TotalKey, 15), Tok(BraceClose, 0)>> }

CanRead == pc = "scan" /\ Len(lines) < MaxLines

\* the variant that never stamps the block it closes
RequestLineWithoutEndTime(line) ==
    /\ CanRead
    /\ UNCHANGED notSeg
    /\ Contains(line, ReqMarker)
    /\ blocks' = IF IsOpen(current_block) THEN Append(blocks, current_block) ELSE blocks
    /\ current_block' = NewBlock(TimestampMatch(line), line)
    /\ inside_request' = TRUE
    /\ inside_response' = FALSE
    /\ lines' = Append(lines, line)
    /\ UNCHANGED <<token_usage_info, idx, pc>>

\* lines 186-215
RequestLine(line) ==
    /\ CanRead
    /\ UNCHANGED notSeg
    /\ Contains(line, ReqMarker)
    /\ LET timestamp_match == TimestampMatch(line)
           closed == IF timestamp_match # None /\ IsOpen(current_block)
                     THEN [current_block EXCEPT !.end_time = timestamp_match]
                     ELSE current_block
       IN /\ blocks' = IF IsOpen(current_block) THEN Append(blocks, closed) ELSE blocks
          /\ current_block' = NewBlock(timestamp_match, line)
    /\ inside_request' = TRUE
    /\ inside_response' = FALSE
    /\ lines' = Append(lines, line)
    /\ UNCHANGED <<token_usage_info, idx, pc>>

\* lines 216-219
ResponseCostLine(line) ==
    /\ CanRead
    /\ UNCHANGED notSeg
    /\ ~Contains(line, ReqMarker)
    /\ Contains(line, CostMarker) /\ IsOpen(current_block)
    /\ LET cost_match == CostMatch(line)
       IN IF cost_match = None
          THEN UNCHANGED <<current_block, pc>>
          ELSE IF FloatRaises(cost_match[1])
          THEN pc' = "raised" /\ UNCHANGED current_block
          ELSE /\ current_block' =
                     ("cost_usd" :> Float(cost_match[1])) @@ current_block
               /\ UNCHANGED pc
    /\ lines' = Append(lines, line)
    /\ UNCHANGED <<blocks, inside_request, inside_response, token_usage_info, idx>>

\* the variant in which a second response marker switches back to request mode
RawResponseLineToggles(line) ==
    /\ CanRead
    /\ UNCHANGED notSeg
    /\ ~Contains(line, ReqMarker)
    /\ ~Contains(line, CostMarker)
    /\ Contains(line, RawMarker) /\ IsOpen(current_block)
    /\ inside_response' = ~inside_response
    /\ inside_request' = inside_response
    /\ current_block' = [current_block EXCEPT !.raw_response = Append(@, line)]
    /\ lines' = Append(lines, line)
    /\ UNCHANGED <<blocks, token_usage_info, idx, pc>>

\* the variant that leaves inside_request as it is
RawResponseLineKeepsRequestMode(line) ==
    /\ CanRead
    /\ UNCHANGED notSeg
    /\ ~Contains(line, ReqMarker)
    /\ ~Contains(line, CostMarker)
    /\ Contains(line, RawMarker) /\ IsOpen(current_block)
    /\ inside_response' = TRUE
    /\ current_block' = [current_block EXCEPT !.raw_response = Append(@, line)]
    /\ lines' = Append(lines, line)
    /\ UNCHANGED <<blocks, inside_request, token_usage_info, idx, pc>>

\* lines 220-223
RawResponseLine(line) ==
    /\ CanRead
    /\ UNCHANGED notSeg
    /\ ~Contains(line, ReqMarker)
    /\ ~Contains(line, CostMarker)
    /\ Contains(line, RawMarker) /\ IsOpen(current_block)
    /\ inside_response' = TRUE
    /\ inside_request' = FALSE
    /\ current_block' = [current_block EXCEPT !.raw_response = Append(@, line)]
    /\ lines' = Append(lines, line)
    /\ UNCHANGED <<blocks, token_usage_info, idx, pc>>

\* the variant that also lets the line fall through to the buffers
ApiErrorLineFallsThrough(line) ==
    /\ CanRead
    /\ UNCHANGED notSeg
    /\ ~Contains(line, ReqMarker)
    /\ ~Contains(line, CostMarker)
    /\ ~Contains(line, RawMarker)
    /\ Contains(line, ApiErrMarker) /\ IsOpen(current_block)
    /\ current_block' =
         [current_block EXCEPT
            !.api_errors = Append(@, Strip(line)),
            !.litellm_request = IF inside_request THEN Append(@, line) ELSE @,
            !.raw_response = IF inside_response THEN Append(@, line) ELSE @]
    /\ lines' = Append(lines, line)
    /\ UNCHANGED <<blocks, inside_request, inside_response, token_usage_info, idx, pc>>

\* lines 224-225
ApiErrorLine(line) ==
    /\ CanRead
    /\ UNCHANGED notSeg
    /\ ~Contains(line, ReqMarker)
    /\ ~Contains(line, CostMarker)
    /\ ~Contains(line, RawMarker)
    /\ Contains(line, ApiErrMarker) /\ IsOpen(current_block)
    /\ current_block' = [current_block EXCEPT !.api_errors = Append(@, Strip(line))]
    /\ lines' = Append(lines, line)
    /\ UNCHANGED <<blocks, inside_request, inside_response, token_usage_info, idx, pc>>

\* the variant that ignores inside_response
AccumulateRequestOnly(cb, line) ==
    IF IsOpen(cb) THEN [cb EXCEPT !.litellm_request = Append(@, line)] ELSE cb

\* lines 226-230
Accumulate(cb, line) ==
    LET r == IF inside_request /\ IsOpen(cb)
             THEN [cb EXCEPT !.litellm_request = Append(@, line)] ELSE cb
    IN IF inside_response /\ IsOpen(r)
       THEN [r EXCEPT !.raw_response = Append(@, line)] ELSE r

OtherLine(line) ==
    /\ CanRead
    /\ UNCHANGED notSeg
    /\ ~Contains(line, ReqMarker)
    /\ ~(IsOpen(current_block) /\
           (\/ Contains(line, CostMarker)
            \/ Contains(line, RawMarker)
            \/ Contains(line, ApiErrMarker)))
    /\ current_block' = Accumulate(current_block, line)
    /\ lines' = Append(lines, line)
    /\ UNCHANGED <<blocks, inside_request, inside_response, token_usage_info, idx, pc>>

\* lines 232-233: the input has ended
EndOfInput ==
    /\ pc = "scan"
    /\ UNCHANGED notSeg
    /\ blocks' = IF IsOpen(current_block) THEN Append(blocks, current_block) ELSE blocks
    /\ pc' = "extract"
    /\ idx' = 1
    /\ UNCHANGED <<lines, current_block, inside_request, inside_response,
                   token_usage_info>>

\* lines 248-275, for the block at idx (the text fields task_hint, model,
\* thought, action and final_answer are left as the scan set them)
ExtractUsage ==
    /\ pc = "extract"
    /\ UNCHANGED notSeg
    /\ idx <= Len(blocks)
    /\ LET raw == blocks[idx].raw_response
           usage == extract_token_usage(raw)
       IN IF usage = <<>>
          THEN UNCHANGED <<blocks, token_usage_info, pc>> /\ idx' = idx + 1
          ELSE IF CostRaises(usage)
          THEN pc' = "raised" /\ UNCHANGED <<blocks, token_usage_info, idx>>
          ELSE LET cost == Cost(usage)
                   withCost == ("cost_usd" :> cost) @@ usage
               IN /\ blocks' = [blocks EXCEPT ![idx].parsed_usage = withCost]
                  /\ token_usage_info' = Append(token_usage_info,
                        [prompt_tokens |-> UsageGet(usage, PromptKey),
                         completion_tokens |-> UsageGet(usage, CompletionKey),
                         total_tokens |-> UsageGet(usage, TotalKey),
                         cost_usd |-> cost])
                  /\ idx' = idx + 1
                  /\ UNCHANGED pc
    /\ UNCHANGED <<lines, current_block, inside_request, inside_response>>

\* line 318
Return ==
    /\ pc = "extract"
    /\ UNCHANGED notSeg
    /\ idx > Len(blocks)
    /\ pc' = "returned"
    /\ UNCHANGED <<lines, blocks, current_block, inside_request, inside_response,
                   token_usage_info, idx>>

----------------------------------------------------------------------------
(* parse_log_file_v2, lines 277-316: thought, action and final answer.  Here a
   response text is a sequence of pieces: a marker, a brace, a line break, a
   word, or the member "choices":[] of a JSON object. *)
ThoughtMark == "Thought:"
ActionMark == "Action:"
FinalMark == "Final Answer:"
OpenBrace == "{"
CloseBrace == "}"
EmptyChoices == "\"choices\":[]"
NewLine == "\n"

\* str.strip() on a text of these pieces
RECURSIVE StripLines(_)
StripLines(text) ==
    IF text = <<>> THEN text
    ELSE IF Head(text) = NewLine THEN StripLines(Tail(text))
    ELSE IF text[Len(text)] = NewLine THEN StripLines(SubSeq(text, 1, Len(text) - 1))
    ELSE text

\* lines 280-282: re.search(mark + r"(.*?)(?:\n\n|$)", raw, re.DOTALL) when
\* blankline, re.search(mark + r"(.*?)(?:\n|$)", raw, re.DOTALL) otherwise:
\* group(1) of the leftmost match, or None
FieldMatch(raw, mark, blankline) ==
    LET marks == {i \in 1..Len(raw) : raw[i] = mark}
    IN IF marks = {} THEN None
       ELSE LET from == Min(marks) + 1
                stop(p) ==
                    \/ p = Len(raw) + 1
                    \/ p <= Len(raw) /\ raw[p] = NewLine
                         /\ (blankline =>
                               (p = Len(raw) \/ raw[p + 1] = NewLine))
                to == Min({p \in from..(Len(raw) + 1) : stop(p)})
            IN Some(SubSeq(raw, from, to - 1))

\* lines 284-289: a field is set when its pattern matches
Group1(b, field, match) ==
    IF match = None THEN b[field] ELSE StripLines(match[1])
DirectPatterns(b) ==
    [b EXCEPT !.final_answer = Group1(b, "final_answer",
                                      FieldMatch(b.raw_response, FinalMark, TRUE)),
              !.action = Group1(b, "action", FieldMatch(b.raw_response, ActionMark, FALSE)),
              !.thought = Group1(b, "thought",
                                 FieldMatch(b.raw_response, ThoughtMark, FALSE))]

\* line 294: re.search(r'(\{.*\})', raw, re.DOTALL), from the first opening
\* brace to the last closing brace
JsonMatch(raw) ==
    LET opens == {i \in 1..Len(raw) : raw[i] = OpenBrace}
        closes == {i \in 1..Len(raw) : raw[i] = CloseBrace}
    IN IF opens # {} /\ closes # {} /\ Min(opens) < Max(closes)
       THEN Some(SubSeq(raw, Min(opens), Max(closes))) ELSE None

\* lines 297-298 on the matched text: "{}" decodes to an object without
\* content, {"choices":[]} decodes and then fails at [0] (IndexError), any
\* other text of these pieces is not JSON (json.JSONDecodeError)
JsonLoads(text) ==
    LET body == SelectSeq(SubSeq(text, 2, Len(text) - 1), LAMBDA piece : piece # NewLine)
    IN IF body = <<>> THEN "decoded"
       ELSE IF body = <<EmptyChoices>> THEN "index error"
       ELSE "decode failure"

\* lines 292-312: how the JSON fallback ends for a block whose direct
\* patterns have been applied
JsonFallback(b) ==
    IF b.final_answer # <<>> \/ b.action # <<>> \/ b.thought # <<>> THEN "not attempted"
    ELSE IF JsonMatch(b.raw_response) = None THEN "no json"
    ELSE JsonLoads(JsonMatch(b.raw_response)[1])

\* the failures the fallback may end with
Failures == {"decode failure", "index error"}

\* the variant without the handler of lines 311-312
RaisesWithoutInnerHandler(outcome) == outcome \in Failures

\* lines 311-312, "except: pass", catches every failure of the fallback; the
\* calls outside it (re.search on a string, str.strip) do not raise
Caught == Failures
ReachesOuterHandler(outcome) == outcome \in Failures \ Caught

\* lines 278-316
extract_fields(b) ==
    LET direct == DirectPatterns(b)
    IN IF ReachesOuterHandler(JsonFallback(direct))
       THEN [direct EXCEPT !.parsing_error = TRUE]
       ELSE direct

\* lines 277-316, for the block at idx
ExtractFields ==
    /\ pc = "fields"
    /\ UNCHANGED notSeg
    /\ idx <= Len(blocks)
    /\ blocks' = [blocks EXCEPT ![idx] = extract_fields(@)]
    /\ idx' = idx + 1
    /\ UNCHANGED <<lines, current_block, inside_request, inside_response,
                   token_usage_info, pc>>

----------------------------------------------------------------------------
(* cli.main, lines 114-115: every returned block dict becomes a ParsedBlock.
   A ParsedBlock is an object: id is its identity (it is hashed by identity). *)
ParsedBlock(i, b) ==
    [id |-> i, start_time |-> b.start_time, parsed_usage |-> b.parsed_usage,
     task_hint |-> b.task_hint, final_answer |-> b.final_answer]

(* unified_analysis (unified_analyzer.py) *)

\* lines 49-61: the scan for rate overrides, with its early break
RECURSIVE RateScan(_, _, _)
RateScan(pr, cr, bs) ==
    IF bs = <<>> THEN <<pr, cr>>
    ELSE LET usage == Head(bs).parsed_usage
             pr2 == IF PromptRateKey \in DOMAIN usage THEN usage[PromptRateKey] ELSE pr
             cr2 == IF CompletionRateKey \in DOMAIN usage
                    THEN usage[CompletionRateKey] ELSE cr
         IN IF pr2 # DefaultPromptRate /\ cr2 # DefaultCompletionRate
            THEN <<pr2, cr2>>
            ELSE RateScan(pr2, cr2, Tail(bs))

\* datetime.strptime(start_time, "%Y-%m-%d %H:%M:%S"): a start_time of -1 is
\* text of the right shape that is no date (month 13), and raises
Parseable(b) == b.start_time # None /\ b.start_time[1] >= 0

\* the variant that takes every block with a start_time, parseable or not
TimesOfAllStamped(bs) == SelectSeq(bs, LAMBDA b : b.start_time # None)

\* lines 63-71: the (block, start_dt) pairs, in input order
Times(bs) == SelectSeq(bs, Parseable)

\* line 72: list.sort(key=...) is stable: equal keys keep their input order
RECURSIVE Insert(_, _)
Insert(sorted, b) ==
    IF sorted = <<>> THEN <<b>>
    ELSE IF sorted[Len(sorted)].start_time[1] <= b.start_time[1]
         THEN Append(sorted, b)
         ELSE Append(Insert(SubSeq(sorted, 1, Len(sorted) - 1), b), sorted[Len(sorted)])
RECURSIVE SortFrom(_, _)
SortFrom(sorted, bs) ==
    IF bs = <<>> THEN sorted ELSE SortFrom(Insert(sorted, Head(bs)), Tail(bs))

\* the variant that leaves the blocks in input order
KeepOrder(times) == times

\* line 72: times.sort(key=lambda x: x[1]), a stable sort
SortByTime(times) == SortFrom(<<>>, times)

\* lines 74-80: block identity -> seconds since the previous block in sorted order
ResponseTimes(bs) ==
    LET times == SortByTime(Times(bs))
    IN [id \in {times[i].id : i \in 2..Len(times)} |->
           LET i == CHOOSE i \in 2..Len(times) : times[i].id = id
           IN times[i].start_time[1] - times[i-1].start_time[1]]

\* lines 112-116: the cost of one block under the rates of the batch
BlockCost(b, pr, cr) ==
    UsageGet(b.parsed_usage, PromptKey) * pr + UsageGet(b.parsed_usage, CompletionKey) * cr

RECURSIVE Sum(_)
Sum(ns) == IF ns = <<>> THEN 0 ELSE Head(ns) + Sum(Tail(ns))

\* truncate_task_hint (lines 21-27), with its default max_length
MaxLength == 40
UnknownTask == <<"U", "n", "k", "n", "o", "w", "n", " ", "T", "a", "s", "k">>
Ellipsis == <<".", ".", ".">>
\* the variant that cuts at max_length and then adds the ellipsis
TruncateToMaxLengthThenDots(hint) ==
    IF hint = <<>> THEN UnknownTask
    ELSE IF Len(hint) > MaxLength THEN SubSeq(hint, 1, MaxLength) \o Ellipsis
    ELSE hint
truncate_task_hint(hint) ==
    IF hint = <<>> THEN UnknownTask
    ELSE IF Len(hint) > MaxLength THEN SubSeq(hint, 1, MaxLength - 3) \o Ellipsis
    ELSE hint

\* lines 99-102: the group keys, in the order of their first block (the order
\* the sort on "First Step" at line 140 gives)
RECURSIVE GroupKeys(_, _)
GroupKeys(seen, bs) ==
    IF bs = <<>> THEN seen
    ELSE LET key == truncate_task_hint(Head(bs).task_hint)
         IN GroupKeys(IF \E k \in 1..Len(seen) : seen[k] = key THEN seen
                      ELSE Append(seen, key),
                      Tail(bs))

\* the variant that counts an empty final answer as an answer
AnswerPresent(b) == b.final_answer # None

\* line 127, "if block.final_answer:": None and the empty string do not count
HasFinalAnswer(b) == b.final_answer # None /\ b.final_answer # Some(<<>>)

\* "" in the column "Response Time (s)" is None here
ShownTime(t) == IF t > 0 THEN Some(t) ELSE None

\* lines 99-129 and 147-158: the row of one group
GroupRow(key, bs, rtm, pr, cr) ==
    LET mine == SelectSeq(bs, LAMBDA b : truncate_task_hint(b.task_hint) = key)
        first == CHOOSE i \in 1..Len(bs) :
                    /\ truncate_task_hint(bs[i].task_hint) = key
                    /\ \A j \in 1..(i - 1) : truncate_task_hint(bs[j].task_hint) # key
        timed == SelectSeq(mine, LAMBDA b : b.id \in DOMAIN rtm)
    IN [Step |-> first,
        Task |-> key,
        PromptTokens |-> Sum([k \in 1..Len(mine) |-> UsageGet(mine[k].parsed_usage, PromptKey)]),
        CompletionTokens |->
            Sum([k \in 1..Len(mine) |-> UsageGet(mine[k].parsed_usage, CompletionKey)]),
        TotalTokens |-> Sum([k \in 1..Len(mine) |-> UsageGet(mine[k].parsed_usage, TotalKey)]),
        Cost |-> Sum([k \in 1..Len(mine) |-> BlockCost(mine[k], pr, cr)]),
        ResponseTime |-> ShownTime(Sum([k \in 1..Len(timed) |-> rtm[timed[k].id]])),
        FinalAnswers |-> Len(SelectSeq(mine, HasFinalAnswer)),
        BlockCount |-> Len(mine)]

\* the variant that leaves the summary row out
NoSummary(rows) == rows

\* lines 169-193: the summary row, computed from the columns of the group rows
Total == <<"T", "O", "T", "A", "L">>
SummaryRow(rows) ==
    LET col(f(_)) == Sum([k \in 1..Len(rows) |-> f(rows[k])])
        time(r) == IF r.ResponseTime = None THEN 0 ELSE r.ResponseTime[1]
        prompt(r) == r.PromptTokens
        completion(r) == r.CompletionTokens
        total(r) == r.TotalTokens
        cost(r) == r.Cost
        answers(r) == r.FinalAnswers
        count(r) == r.BlockCount
    IN [Step |-> 0,
        Task |-> Total,
        PromptTokens |-> col(prompt),
        CompletionTokens |-> col(completion),
        TotalTokens |-> col(total),
        Cost |-> col(cost),
        ResponseTime |-> ShownTime(col(time)),
        FinalAnswers |-> col(answers),
        BlockCount |-> col(count)]
WithSummary(rows) == Append(rows, SummaryRow(rows))

\* lines 82-193: None when there is no row ("No data available for analysis")
Report(bs, rtm, pr, cr) ==
    LET keys == GroupKeys(<<>>, bs)
        rows == [k \in 1..Len(keys) |-> GroupRow(keys[k], bs, rtm, pr, cr)]
    IN IF rows = <<>> THEN None ELSE Some(WithSummary(rows))

\* cli.main, lines 114-115: ParsedBlock takes no cost_usd argument (TypeError)
MakeParsedBlocks ==
    /\ pc = "returned"
    /\ UNCHANGED <<matchVars, wfVars, filterVars>>
    /\ IF \E i \in 1..Len(blocks) : "cost_usd" \in DOMAIN blocks[i]
       THEN pc' = "raised" /\ UNCHANGED <<parsed_blocks, first_blocks>>
       ELSE /\ parsed_blocks' = [i \in 1..Len(blocks) |-> ParsedBlock(i, blocks[i])]
            /\ first_blocks' = parsed_blocks'
            /\ pc' = "analysis"
    /\ UNCHANGED <<lines, blocks, current_block, inside_request, inside_response,
                   token_usage_info, idx>>
    /\ UNCHANGED <<prompt_token_cost, completion_token_cost, response_times_map,
                   block_costs, report>>

\* unified_analysis, lines 45-193 (models and tools are left out)
UnifiedAnalysis ==
    /\ pc = "analysis"
    /\ UNCHANGED <<matchVars, wfVars, filterVars>>
    /\ LET rates == RateScan(DefaultPromptRate, DefaultCompletionRate, parsed_blocks)
       IN /\ prompt_token_cost' = rates[1]
          /\ completion_token_cost' = rates[2]
          /\ block_costs' = Some([i \in 1..Len(parsed_blocks) |->
                                    BlockCost(parsed_blocks[i], rates[1], rates[2])])
    /\ response_times_map' = Some(ResponseTimes(parsed_blocks))
    /\ report' = Report(parsed_blocks, ResponseTimes(parsed_blocks),
                        prompt_token_cost', completion_token_cost')
    /\ pc' = "analysed"
    /\ UNCHANGED <<lines, blocks, current_block, inside_request, inside_response,
                   token_usage_info, idx, parsed_blocks, first_blocks>>

\* the caller hands the same blocks over again, two neighbours exchanged
Permute(i) ==
    /\ pc = "analysed"
    /\ UNCHANGED <<matchVars, wfVars, filterVars>>
    /\ i \in 1..(Len(parsed_blocks) - 1)
    /\ parsed_blocks' = [parsed_blocks EXCEPT ![i] = parsed_blocks[i+1],
                                              ![i+1] = parsed_blocks[i]]
    /\ prompt_token_cost' = DefaultPromptRate
    /\ completion_token_cost' = DefaultCompletionRate
    /\ response_times_map' = None
    /\ block_costs' = None
    /\ report' = None
    /\ pc' = "analysis"
    /\ UNCHANGED <<lines, blocks, current_block, inside_request, inside_response,
                   token_usage_info, idx, first_blocks>>

----------------------------------------------------------------------------
(* ConfigAwareLogParser._match_task_to_block (config_aware_parser.py).  Here a
   string is the sequence of its characters. *)

\* str.lower()
LowerChar(c) ==
    CASE c = "A" -> "a" [] c = "K" -> "k" [] c = "O" -> "o"
      [] c = "X" -> "x" [] c = "Y" -> "y" [] OTHER -> c
Lower(str) == [i \in 1..Len(str) |-> LowerChar(str[i])]

\* sub in str
In(sub, str) ==
    \E i \in 0..(Len(str) - Len(sub)) : SubSeq(str, i + 1, i + Len(sub)) = sub

\* str.split(sep): the pieces between the separators, empty ones kept
RECURSIVE SplitFrom(_, _, _, _)
SplitFrom(done, piece, str, sep) ==
    IF str = <<>> THEN Append(done, piece)
    ELSE IF Head(str) = sep THEN SplitFrom(Append(done, piece), <<>>, Tail(str), sep)
    ELSE SplitFrom(done, Append(piece, Head(str)), Tail(str), sep)
Split(str, sep) == SplitFrom(<<>>, <<>>, str, sep)

\* list[:n]
Take(list, n) == SubSeq(list, 1, IF Len(list) < n THEN Len(list) ELSE n)

\* line 17: the condition of the first loop
HintMatches(task, task_hint) ==
    LET desc_simple == Lower(task.description)
        phrases == Take(Split(desc_simple, "."), 2)
    IN \/ In(Lower(task.task_id), task_hint)
       \/ \E k \in 1..Len(phrases) : In(phrases[k], task_hint)

\* line 20: the condition of the second loop
OutputMatches(task, b) == In(Lower(task.expected_output), Lower(b.raw_response))

\* lines 16-18: "for task_id, task in self.tasks.items(): if ...: return task_id"
RECURSIVE FirstByHint(_, _)
FirstByHint(ts, task_hint) ==
    IF ts = <<>> THEN None
    ELSE IF HintMatches(Head(ts), task_hint) THEN Some(Head(ts).task_id)
    ELSE FirstByHint(Tail(ts), task_hint)

\* lines 19-21
RECURSIVE FirstByOutput(_, _)
FirstByOutput(ts, b) ==
    IF ts = <<>> THEN None
    ELSE IF OutputMatches(Head(ts), b) THEN Some(Head(ts).task_id)
    ELSE FirstByOutput(Tail(ts), b)

\* the variant a single loop over the tasks would give
RECURSIVE MatchInOneLoop(_, _)
MatchInOneLoop(ts, b) ==
    IF ts = <<>> THEN None
    ELSE IF HintMatches(Head(ts), Lower(b.task_hint)) \/ OutputMatches(Head(ts), b)
         THEN Some(Head(ts).task_id)
    ELSE MatchInOneLoop(Tail(ts), b)

\* lines 13-22
match_task_to_block(ts, b) ==
    LET task_hint == Lower(b.task_hint)
        first == FirstByHint(ts, task_hint)
    IN IF first # None THEN first ELSE FirstByOutput(ts, b)

\* config_aware_parser.py line 63, for one block
MatchTask ==
    /\ pc = "match"
    /\ task_id' = match_task_to_block(tasks, block)
    /\ pc' = "matched"
    /\ UNCHANGED <<tasks, block, agents, agent_id, tool_output, tool_success>>
    /\ UNCHANGED <<lines, blocks, current_block, inside_request, inside_response,
                   token_usage_info, idx>>
    /\ UNCHANGED <<uaVars, wfVars, filterVars>>

\* the variant in which a later matching agent replaces an earlier one
RECURSIVE LastAgentByRole(_, _)
LastAgentByRole(ags, b) ==
    IF ags = <<>> THEN None
    ELSE LET later == LastAgentByRole(Tail(ags), b)
         IN IF later # None THEN later
            ELSE IF In(Lower(Head(ags).role), Lower(b.litellm_request))
                 THEN Some(Head(ags).agent_id)
            ELSE None

\* _match_agent_to_block, lines 24-29
RECURSIVE match_agent_to_block(_, _)
match_agent_to_block(ags, b) ==
    IF ags = <<>> THEN None
    ELSE IF In(Lower(Head(ags).role), Lower(b.litellm_request))
         THEN Some(Head(ags).agent_id)
    ELSE match_agent_to_block(Tail(ags), b)

\* config_aware_parser.py line 64, for one block
MatchAgent ==
    /\ pc = "match"
    /\ agent_id' = match_agent_to_block(agents, block)
    /\ pc' = "matched"
    /\ UNCHANGED <<tasks, block, task_id, agents, tool_output, tool_success>>
    /\ UNCHANGED <<lines, blocks, current_block, inside_request, inside_response,
                   token_usage_info, idx>>
    /\ UNCHANGED <<uaVars, wfVars, filterVars>>

(* _extract_tool_info, lines 48-56.  Here a response text is a sequence of
   pieces: the marker "Observation:", a blank, a line break, or a word. *)
ObservationMark == "Observation:"
Blank == " "
LineBreak == "\n"
IsSpace(piece) == piece \in {Blank, LineBreak}

\* str.lower() on one piece
LowerPiece(piece) == IF piece \in {"ERROR", "Error"} THEN "error" ELSE piece
\* "error" in text.lower()
HasError(text) == \E i \in 1..Len(text) : LowerPiece(text[i]) = "error"

\* str.strip()
RECURSIVE StripText(_)
StripText(text) ==
    IF text = <<>> THEN text
    ELSE IF IsSpace(Head(text)) THEN StripText(Tail(text))
    ELSE IF IsSpace(text[Len(text)]) THEN StripText(SubSeq(text, 1, Len(text) - 1))
    ELSE text

\* line 49: re.search(r'Observation:\s*(.*?)(?:\n\n|$)', raw_response, re.DOTALL),
\* group(1) of the leftmost match, or None when the marker does not occur
ObservationMatch(text) ==
    LET marks == {i \in 1..Len(text) : text[i] = ObservationMark}
    IN IF marks = {} THEN None
       ELSE LET m == Min(marks)
                \* \s* is greedy: the capture starts after all the white space
                from == Min({j \in (m + 1)..(Len(text) + 1) :
                               j = Len(text) + 1 \/ ~IsSpace(text[j])})
                \* .*? is lazy: it stops at the first blank line, or at the
                \* end of the text ($ also matches before a final line break)
                to == Min({p \in from..(Len(text) + 1) :
                             \/ p = Len(text) + 1
                             \/ p = Len(text) /\ text[p] = LineBreak
                             \/ p < Len(text) /\ text[p] = LineBreak
                                              /\ text[p + 1] = LineBreak})
            IN Some(SubSeq(text, from, to - 1))

\* lines 50-51
ToolOutput(raw_response) ==
    LET output_match == ObservationMatch(raw_response)
    IN IF output_match = None THEN None ELSE Some(StripText(output_match[1]))

\* the variant that looks for "error" in the whole response first
ToolSuccessErrorFirst(output, raw_response) ==
    IF HasError(raw_response) THEN Some(FALSE)
    ELSE IF output # None /\ output # Some(<<>>) THEN Some(TRUE)
    ELSE None

\* lines 52-55
ToolSuccess(output, raw_response) ==
    IF output # None /\ output # Some(<<>>) /\ ~HasError(output[1]) THEN Some(TRUE)
    ELSE IF HasError(raw_response) THEN Some(FALSE)
    ELSE None

\* config_aware_parser.py line 65, for one block
ExtractToolInfo ==
    /\ pc = "match"
    /\ tool_output' = ToolOutput(block.raw_response)
    /\ tool_success' = ToolSuccess(tool_output', block.raw_response)
    /\ pc' = "matched"
    /\ UNCHANGED <<tasks, block, task_id, agents, agent_id>>
    /\ UNCHANGED <<lines, blocks, current_block, inside_request, inside_response,
                   token_usage_info, idx>>
    /\ UNCHANGED <<uaVars, wfVars, filterVars>>

----------------------------------------------------------------------------
(* WorkflowReconstructor (workflow_reconstructor.py).  self.nodes is a
   function from task identifiers to nodes; a node keeps the indices of its
   blocks and the two sets of identifiers. *)

\* WorkflowNode.__init__
WorkflowNode(tid, bs) ==
    [task_id |-> tid, blocks |-> bs, dependencies |-> {}, dependents |-> {}]

\* WorkflowNode.add_dependency
add_dependency(ns, tid, dep) ==
    [ns EXCEPT ![tid].dependencies = @ \cup {dep}]

\* WorkflowNode.add_dependent
add_dependent(ns, tid, dep) ==
    [ns EXCEPT ![tid].dependents = @ \cup {dep}]

\* the variant that keeps only the latest block of a task
TaskBlocksLatestOnly(bs, tid) ==
    LET is == {i \in 1..Len(bs) : bs[i].task_id = Some(tid)}
    IN IF is = {} THEN <<>> ELSE <<CHOOSE i \in is : \A j \in is : j <= i>>

\* lines 50-55: the blocks of each task, in input order
TaskBlocks(bs, tid) ==
    SelectSeq([i \in 1..Len(bs) |-> i], LAMBDA i : bs[i].task_id = Some(tid))
\* line 52, "if block.task_id:": None and the empty string are skipped
GroupedIds(bs) ==
    {bs[i].task_id[1] :
        i \in {j \in 1..Len(bs) : bs[j].task_id # None /\ bs[j].task_id # Some("")}}

\* lines 57-58: a fresh node for every task that has blocks
CreateNodes(ns, bs) ==
    [tid \in GroupedIds(bs) \cup DOMAIN ns |->
        IF tid \in GroupedIds(bs) THEN WorkflowNode(tid, TaskBlocks(bs, tid))
        ELSE ns[tid]]

\* the variant of lines 62-65 that records a dependency without looking it up
RECURSIVE AddDepsUnchecked(_, _, _)
AddDepsUnchecked(ns, tid, deps) ==
    IF deps = <<>> THEN ns
    ELSE LET dep == Head(deps)
             n1 == add_dependency(ns, tid, dep)
         IN AddDepsUnchecked(IF dep \in DOMAIN ns THEN add_dependent(n1, dep, tid)
                             ELSE n1,
                             tid, Tail(deps))

\* the variant of lines 62-65 that leaves out line 65
RECURSIVE AddDepsOneWay(_, _, _)
AddDepsOneWay(ns, tid, deps) ==
    IF deps = <<>> THEN ns
    ELSE LET dep == Head(deps)
         IN AddDepsOneWay(IF dep \in DOMAIN ns THEN add_dependency(ns, tid, dep)
                          ELSE ns,
                          tid, Tail(deps))

\* lines 62-65: "for dep in task.dependencies: if dep in self.nodes: ..."
RECURSIVE AddDeps(_, _, _)
AddDeps(ns, tid, deps) ==
    IF deps = <<>> THEN ns
    ELSE LET dep == Head(deps)
         IN AddDeps(IF dep \in DOMAIN ns
                    THEN add_dependent(add_dependency(ns, tid, dep), dep, tid)
                    ELSE ns,
                    tid, Tail(deps))

\* lines 60-61: "for task_id, task in self.tasks.items(): if task_id in self.nodes"
RECURSIVE AddTasks(_, _)
AddTasks(ns, ts) ==
    IF ts = <<>> THEN ns
    ELSE AddTasks(IF Head(ts).task_id \in DOMAIN ns
                  THEN AddDeps(ns, Head(ts).task_id, Head(ts).dependencies)
                  ELSE ns,
                  Tail(ts))

\* lines 48-66
reconstruct(ns, bs, ts) == AddTasks(CreateNodes(ns, bs), ts)

\* lines 80-82: one "dep --> task_id" line for every dependency of every node
MermaidEdges(ns) ==
    {<<dep, tid>> : dep \in UNION {ns[t].dependencies : t \in DOMAIN ns},
                    tid \in DOMAIN ns} \cap
    {e \in (UNION {ns[t].dependencies : t \in DOMAIN ns}) \X DOMAIN ns :
        e[1] \in ns[e[2]].dependencies}

Reconstruct ==
    /\ pc \in {"wf", "built"}
    /\ nodes' = reconstruct(nodes, enhanced_blocks, wf_tasks)
    /\ pc' = "built"
    /\ UNCHANGED <<wf_tasks, enhanced_blocks, mermaid_edges, mermaid_code,
                   task_report, agent_report>>
    /\ UNCHANGED <<lines, blocks, current_block, inside_request, inside_response,
                   token_usage_info, idx>>
    /\ UNCHANGED <<matchVars, uaVars, filterVars>>

\* the keys of self.nodes in dict order: the order in which the task ids
\* first occur among the blocks (lines 51-58)
RECURSIVE NodeOrder(_, _)
NodeOrder(seen, bs) ==
    IF bs = <<>> THEN seen
    ELSE LET t == Head(bs).task_id
         IN NodeOrder(IF t # None /\ t # Some("") /\ \A k \in 1..Len(seen) : seen[k] # t[1]
                      THEN Append(seen, t[1]) ELSE seen,
                      Tail(bs))

\* line 71
GraphLine == [kind |-> "graph TD", from |-> "", to |-> ""]
\* the variant that asks the node's first block only
NodeAgentOfFirstBlock(bs, node) ==
    IF node.blocks = <<>> \/ bs[node.blocks[1]].agent_id \in {None, Some("")} THEN None
    ELSE bs[node.blocks[1]].agent_id

\* WorkflowNode.agent_id, lines 33-38; node.blocks holds positions in bs
NodeAgent(bs, node) ==
    LET carrying == {k \in 1..Len(node.blocks) :
                        bs[node.blocks[k]].agent_id \notin {None, Some("")}}
    IN IF carrying = {} THEN None ELSE bs[node.blocks[Min(carrying)]].agent_id

\* WorkflowNode.total_tokens, lines 19-21
NodeTotalTokens(bs, node) ==
    LET used == SelectSeq(node.blocks, LAMBDA i : bs[i].parsed_usage # None)
    IN Sum([k \in 1..Len(used) |-> bs[used[k]].parsed_usage[1].total_tokens])

\* lines 74-78: the declaration of a node, with the agent and the tokens of
\* its label (cost and success rate are left out)
NodeLine(ns, bs, tid) ==
    [kind |-> "node", from |-> tid, to |-> tid,
     agent |-> IF NodeAgent(bs, ns[tid]) = None THEN "unknown"
               ELSE NodeAgent(bs, ns[tid])[1],
     tokens |-> NodeTotalTokens(bs, ns[tid])]
\* the variant that draws the arrow from the task to its dependency
EdgeLineReversed(dep, tid) == [kind |-> "-->", from |-> tid, to |-> dep]
\* line 82: f"    {dep} --> {task_id}\n"
EdgeLine(dep, tid) == [kind |-> "-->", from |-> dep, to |-> tid]

\* the orders in which "for dep in node.dependencies" may visit a set
RECURSIVE Orders(_)
Orders(S) ==
    IF S = {} THEN {<<>>}
    ELSE UNION {{<<x>> \o rest : rest \in Orders(S \ {x})} : x \in S}

\* lines 73-78
NodeLines(ns, bs, order) == [k \in 1..Len(order) |-> NodeLine(ns, bs, order[k])]

\* lines 80-82: the edge lines the loop may emit, node by node
RECURSIVE EdgeLines(_, _)
EdgeLines(ns, order) ==
    IF order = <<>> THEN {<<>>}
    ELSE {[k \in 1..Len(deps) |-> EdgeLine(deps[k], Head(order))] \o rest :
             deps \in Orders(ns[Head(order)].dependencies),
             rest \in EdgeLines(ns, Tail(order))}

\* lines 68-83
GenerateMermaidDiagram ==
    /\ pc \in {"wf", "built"}
    /\ nodes' = IF DOMAIN nodes = {}
                THEN reconstruct(nodes, enhanced_blocks, wf_tasks) ELSE nodes
    /\ mermaid_edges' = MermaidEdges(nodes')
    /\ LET order == NodeOrder(<<>>, enhanced_blocks)
       IN \E edges \in EdgeLines(nodes', order) :
             mermaid_code' = <<GraphLine>> \o NodeLines(nodes', enhanced_blocks, order) \o edges
    /\ pc' = "rendered"
    /\ UNCHANGED <<wf_tasks, enhanced_blocks, task_report, agent_report>>
    /\ UNCHANGED <<lines, blocks, current_block, inside_request, inside_response,
                   token_usage_info, idx>>
    /\ UNCHANGED <<matchVars, uaVars, filterVars>>

----------------------------------------------------------------------------
(* The parts of the state a specification does not exercise stay idle *)
FilterIdle == filtered_lines = <<>> /\ keep_next_n_lines = 0
SegIdle ==
    /\ lines = <<>> /\ blocks = <<>> /\ current_block = NoBlock
    /\ inside_request = FALSE /\ inside_response = FALSE
    /\ token_usage_info = <<>> /\ idx = 0 /\ pc = "idle"
MatchIdle ==
    /\ tasks = <<>> /\ block = <<>> /\ task_id = None
    /\ agents = <<>> /\ agent_id = None /\ tool_output = None /\ tool_success = None
UaIdle ==
    /\ parsed_blocks = <<>> /\ first_blocks = <<>>
    /\ prompt_token_cost = DefaultPromptRate
    /\ completion_token_cost = DefaultCompletionRate
    /\ response_times_map = None
    /\ block_costs = None
    /\ report = None
WfIdle ==
    /\ wf_tasks = <<>> /\ enhanced_blocks = <<>> /\ nodes = <<>>
    /\ mermaid_edges = {} /\ mermaid_code = <<>>
    /\ task_report = None /\ agent_report = None

----------------------------------------------------------------------------
(* parse_log_file_v2 on a log read line by line *)
SegInit ==
    /\ FilterIdle
    /\ lines = <<>> /\ blocks = <<>> /\ current_block = NoBlock
    /\ inside_request = FALSE /\ inside_response = FALSE
    /\ token_usage_info = <<>> /\ idx = 0 /\ pc = "scan"
    /\ MatchIdle /\ UaIdle /\ WfIdle

SegNext ==
    \/ \E line \in SegLines : RequestLine(line)
    \/ \E line \in SegLines : ResponseCostLine(line)
    \/ \E line \in SegLines : RawResponseLine(line)
    \/ \E line \in SegLines : ApiErrorLine(line)
    \/ \E line \in SegLines : OtherLine(line)
    \/ EndOfInput
    \/ ExtractUsage
    \/ Return

SpecSeg == SegInit /\ [][SegNext]_vars

----------------------------------------------------------------------------
(* What the log says, independently of the parser's state *)

\* the log cut at its request-marker lines; the lines before the first are in no piece
RECURSIVE Segments(_, _)
Segments(acc, ls) ==
    IF ls = <<>> THEN acc
    ELSE IF Contains(Head(ls), ReqMarker)
         THEN Segments(Append(acc, <<Head(ls)>>), Tail(ls))
    ELSE IF acc = <<>> THEN Segments(acc, Tail(ls))
    ELSE Segments([acc EXCEPT ![Len(acc)] = Append(@, Head(ls))], Tail(ls))

LogPieces == Segments(<<>>, lines)

\* every block opened so far, the open one last
Opened ==
    IF idx = 0 /\ IsOpen(current_block) THEN Append(blocks, current_block) ELSE blocks

HasErr(l) == Contains(l, ApiErrMarker)
HasRaw(l) == Contains(l, RawMarker)
HasCost(l) == Contains(l, CostMarker)
StripAll(ls) == [i \in 1..Len(ls) |-> Strip(ls[i])]
Range(s) == {s[i] : i \in 1..Len(s)}

\* C1 as stated: for every log text, parse_log_file_v2 returns exactly as many
\* blocks as the log has lines containing "Request to litellm:", in line order,
\* the i-th block's litellm_request beginning with the i-th such line.
C1_ReturnsOneBlockPerMarker ==
    pc \in {"returned", "raised"} =>
        /\ pc = "returned"
        /\ Len(blocks) = Len(LogPieces)
        /\ \A i \in 1..Len(blocks) : blocks[i].litellm_request[1] = LogPieces[i][1]

\* What does hold for C1: whenever the function returns, and at every point
\* of the scan, there is one block per request-marker line, in line order.
C1_OneBlockPerMarkerWhenReturned ==
    /\ Len(Opened) = Len(LogPieces)
    /\ \A i \in 1..Len(Opened) : Opened[i].litellm_request[1] = LogPieces[i][1]
    /\ pc = "returned" => Opened = blocks

\* C5 as stated: every line that contains "APIStatusError" and lies inside an
\* open block is recorded in that block's api_errors, in log order, and is
\* appended to neither litellm_request nor raw_response.
C5_EveryErrorLineRecorded ==
    pc # "raised" =>
    \A i \in 1..Len(Opened) :
        LET errs == SelectSeq(Tail(LogPieces[i]), HasErr)
        IN /\ Opened[i].api_errors = StripAll(errs)
           /\ Range(errs) \cap Range(Opened[i].raw_response) = {}
           /\ Range(errs) \cap Range(Tail(Opened[i].litellm_request)) = {}

\* C5 amended: every line inside an open block that contains "APIStatusError"
\* and none of "Request to litellm:", "response_cost:" and "RAW RESPONSE:" is
\* recorded (stripped) in that block's api_errors, in log order, and is
\* appended to neither litellm_request nor raw_response.
OnlyErr(l) == HasErr(l) /\ ~HasCost(l) /\ ~HasRaw(l)
C5_PureErrorLinesRecorded ==
    \A i \in 1..Len(Opened) :
        LET errs == SelectSeq(Tail(LogPieces[i]), OnlyErr)
        IN /\ Opened[i].api_errors = StripAll(errs)
           /\ Range(errs) \cap Range(Opened[i].raw_response) = {}
           /\ Range(errs) \cap Range(Tail(Opened[i].litellm_request)) = {}

\* C5 witness: a returned block holds two different error lines in log order
C5_Witness ==
    /\ pc = "returned"
    /\ \E i \in 1..Len(blocks) :
          /\ Len(blocks[i].api_errors) = 2
          /\ blocks[i].api_errors[1] # blocks[i].api_errors[2]
          /\ blocks[i].raw_response # <<>>

\* the first line at or after position 2 of a piece that satisfies P, or Len + 1
FirstFrom2(piece, P(_)) ==
    LET hits == {j \in 2..Len(piece) : P(piece[j])}
    IN IF hits = {} THEN Len(piece) + 1 ELSE Min(hits)

\* C6 as stated: every line inside an open block that contains none of the
\* request, response and API-error markers is appended to exactly the active
\* buffer: litellm_request before the block's response marker, raw_response
\* after it; none is lost.
Plain3(l) == ~HasRaw(l) /\ ~HasErr(l)
C6_PlainLinesKept ==
    pc # "raised" =>
    \A i \in 1..Len(Opened) :
        LET piece == LogPieces[i]
            sw == FirstFrom2(piece, HasRaw)
        IN /\ SelectSeq(Tail(Opened[i].litellm_request), Plain3)
                = SelectSeq(SubSeq(piece, 2, sw - 1), Plain3)
           /\ SelectSeq(Opened[i].raw_response, Plain3)
                = SelectSeq(SubSeq(piece, sw + 1, Len(piece)), Plain3)

\* C6 amended: every line inside an open block that contains none of the
\* request, response_cost, response and API-error markers is appended to
\* exactly the active buffer: litellm_request before the line that switches
\* the block to response mode (the first one with "RAW RESPONSE:" and without
\* "response_cost:"), raw_response after it; none is lost.
Plain4(l) == ~HasRaw(l) /\ ~HasErr(l) /\ ~HasCost(l)
Switches(l) == HasRaw(l) /\ ~HasCost(l)
C6_PlainLinesKeptButCost ==
    \A i \in 1..Len(Opened) :
        LET piece == LogPieces[i]
            sw == FirstFrom2(piece, Switches)
        IN /\ SelectSeq(Tail(Opened[i].litellm_request), Plain4)
                = SelectSeq(SubSeq(piece, 2, sw - 1), Plain4)
           /\ SelectSeq(Opened[i].raw_response, Plain4)
                = SelectSeq(SubSeq(piece, sw + 1, Len(piece)), Plain4)

\* C6 witness: a returned block with a plain line in each buffer
C6_Witness ==
    /\ pc = "returned"
    /\ \E i \in 1..Len(blocks) :
          /\ Len(blocks[i].litellm_request) = 2
          /\ Plain4(blocks[i].litellm_request[2])
          /\ Len(blocks[i].raw_response) = 2
          /\ Plain4(blocks[i].raw_response[2])

----------------------------------------------------------------------------
(* The extraction loop of parse_log_file_v2, then cli.main's unified_analysis,
   on a log of one request line and one response *)
UsageLines ==
    { <<W(1)>>,
      <<Tok(UsageOpen, 0), Field(PromptKey, 10), Field(CompletionKey, 5),
        Field(TotalKey, 15), Tok(BraceClose, 0)>>,
      <<Tok(UsageOpen, 0), Field(PromptKey, 0), Field(CompletionKey, 0),
        Field(TotalKey, 0), Tok(BraceClose, 0)>>,
      <<Tok(UsageOpen, 0), Field(CompletionKey, 5), Field(PromptKey, 10),
        Field(TotalKey, 15), Tok(BraceClose, 0)>>,
      <<Tok(UsageOpen, 0), Field(PromptKey, 10), Field(CompletionKey, 5),
        Field(TotalKey, 15), Tok(BraceOpen, 0), Tok(BraceClose, 0), Tok(BraceClose, 0)>>,
      <<Tok(UsageOpen, 0), Field(PromptKey, 2), Field(CompletionKey, 3),
        Field(TotalKey, 5), Field(PromptRateKey, 20), Tok(BraceClose, 0)>>,
      <<Tok(UsageOpen, 0), Field(PromptKey, -1), Field(CompletionKey, 5),
        Field(TotalKey, 5), Tok(BraceClose, 0)>>,
      <<Field(PromptKey, 99)>>,
      <<Field(PromptKey, 4)>>,
      <<Field(CompletionKey, 7)>>,
      <<Field(TotalKey, 1)>> }

RECURSIVE SeqsUpTo(_, _)
SeqsUpTo(S, n) ==
    IF n = 0 THEN {<<>>}
    ELSE LET shorter == SeqsUpTo(S, n - 1)
         IN shorter \cup {Append(q, x) : q \in shorter, x \in S}

UsageInit ==
    /\ FilterIdle
    /\ \E resp \in SeqsUpTo(UsageLines, MaxRespLines) :
          LET req == <<Ts(1), Tok(ReqMarker, 0), W(1)>>
              raw == <<<<Tok(RawMarker, 0)>>>> \o resp
              b == [NewBlock(Some(1), req) EXCEPT !.raw_response = raw]
          IN /\ lines = <<req>> \o raw
             /\ blocks = <<b>>
             /\ current_block = b
    /\ inside_request = FALSE /\ inside_response = TRUE
    /\ token_usage_info = <<>> /\ idx = 1 /\ pc = "extract"
    /\ MatchIdle /\ UaIdle /\ WfIdle

UsageNext == ExtractUsage \/ Return \/ MakeParsedBlocks \/ UnifiedAnalysis

SpecUsage == UsageInit /\ [][UsageNext]_vars

----------------------------------------------------------------------------
(* unified_analysis on batches of blocks that differ in their start_time *)
StartTimes == {None, Some(-1), Some(1), Some(2), Some(3)}

LatInit ==
    /\ FilterIdle
    /\ \E n \in 0..MaxBatch : \E st \in [1..n -> StartTimes] :
       \E th \in [1..n -> {<<>>, <<"h">>}] :
          parsed_blocks = [i \in 1..n |->
              [id |-> i, start_time |-> st[i], parsed_usage |-> <<>>,
               task_hint |-> th[i], final_answer |-> None]]
    /\ first_blocks = parsed_blocks
    /\ prompt_token_cost = DefaultPromptRate
    /\ completion_token_cost = DefaultCompletionRate
    /\ response_times_map = None /\ block_costs = None /\ report = None
    /\ lines = <<>> /\ blocks = <<>> /\ current_block = NoBlock
    /\ inside_request = FALSE /\ inside_response = FALSE
    /\ token_usage_info = <<>> /\ idx = 0 /\ pc = "analysis"
    /\ MatchIdle /\ WfIdle

LatNext == UnifiedAnalysis \/ \E i \in 1..MaxBatch : Permute(i)

SpecLat == LatInit /\ [][LatNext]_vars

----------------------------------------------------------------------------
(* unified_analysis on batches of blocks that differ in their parsed_usage *)
WithRates(pr, cr) ==
    LET base == ("cost_usd" :> 450) @@ Triple(10, 5, 15)
        p == IF pr = 0 THEN base ELSE (PromptRateKey :> pr) @@ base
    IN IF cr = 0 THEN p ELSE (CompletionRateKey :> cr) @@ p

\* the usage dicts of the batch: none, and those of a usage object that
\* carries no rate, one rate, or both
UsageDicts ==
    { <<>>, WithRates(0, 0), WithRates(20, 0), WithRates(30, 0), WithRates(15, 0),
      WithRates(0, 70), WithRates(0, 80), WithRates(20, 70) }

RatesInit ==
    /\ FilterIdle
    /\ \E n \in 0..MaxBatch : \E us \in [1..n -> UsageDicts] :
          parsed_blocks = [i \in 1..n |->
              [id |-> i, start_time |-> None, parsed_usage |-> us[i],
               task_hint |-> <<>>, final_answer |-> None]]
    /\ first_blocks = parsed_blocks
    /\ prompt_token_cost = DefaultPromptRate
    /\ completion_token_cost = DefaultCompletionRate
    /\ response_times_map = None /\ block_costs = None /\ report = None
    /\ lines = <<>> /\ blocks = <<>> /\ current_block = NoBlock
    /\ inside_request = FALSE /\ inside_response = FALSE
    /\ token_usage_info = <<>> /\ idx = 0 /\ pc = "analysis"
    /\ MatchIdle /\ WfIdle

RatesNext == UnifiedAnalysis

SpecRates == RatesInit /\ [][RatesNext]_vars

----------------------------------------------------------------------------
(* Latency under permutation (SpecLat) *)

\* C4 as stated: for every permutation of the same blocks the mapping from
\* block to latency is the one computed for the original order, equal
\* timestamps included.
C4_SameLatencyMapForEveryOrder ==
    pc = "analysed" => response_times_map[1] = ResponseTimes(first_blocks)

DistinctTimes(bs) ==
    \A i, j \in 1..Len(bs) :
        (i # j /\ Parseable(bs[i]) /\ Parseable(bs[j]))
            => bs[i].start_time # bs[j].start_time

\* how many blocks have latency v
Count(m, v) == Cardinality({id \in DOMAIN m : m[id] = v})
LatencyValues(m) == {m[id] : id \in DOMAIN m}

\* C4 amended: for every permutation of the same blocks the latencies are the
\* same as a bag of values, and the mapping from block to latency is the same
\* whenever the parseable start timestamps are pairwise distinct (among blocks
\* of equal timestamp the input order decides which block gets which latency).
C4_SameLatenciesWhenTimesDistinct ==
    pc = "analysed" =>
        LET now == response_times_map[1]
            first == ResponseTimes(first_blocks)
        IN /\ LatencyValues(now) = LatencyValues(first)
           /\ \A v \in LatencyValues(now) : Count(now, v) = Count(first, v)
           /\ DistinctTimes(first_blocks) => now = first

\* C4 witness: a reordered batch of three blocks with distinct timestamps, analysed
C4_Witness ==
    /\ pc = "analysed"
    /\ parsed_blocks # first_blocks
    /\ DistinctTimes(first_blocks)
    /\ Cardinality(DOMAIN response_times_map[1]) >= 2

----------------------------------------------------------------------------
(* Rate overrides (SpecRates) *)

\* the value of key in the first block, in sequence order, that supplies it
FirstSupplied(bs, key, default) ==
    LET hits == {i \in 1..Len(bs) : key \in DOMAIN bs[i].parsed_usage}
    IN IF hits = {} THEN default ELSE bs[Min(hits)].parsed_usage[key]

\* C7 as stated: the prompt rate and the completion rate used for the batch
\* are the values of the first block, in sequence order, that supplies
\* prompt_token_cost / completion_token_cost; a later block never changes them.
C7_FirstOverrideWins ==
    pc = "analysed" =>
        /\ prompt_token_cost = FirstSupplied(parsed_blocks, PromptRateKey, 15)
        /\ completion_token_cost = FirstSupplied(parsed_blocks, CompletionRateKey, 60)

----------------------------------------------------------------------------
(* Usage extraction and cost (SpecUsage) *)
TheRaw == blocks[1].raw_response
TheToks == Flatten(TheRaw)
Extracted == idx >= 2 /\ pc # "raised"
ThreeKeys == {PromptKey, CompletionKey, TotalKey}

\* the "usage" objects of the response text: from "usage": { to the next '}'
UsageObjects ==
    {o \in (1..Len(TheToks)) \X (1..Len(TheToks)) :
        /\ TheToks[o[1]].k = UsageOpen
        /\ o[1] < o[2]
        /\ TheToks[o[2]].k = BraceClose
        /\ \A j \in (o[1]+1)..(o[2]-1) : TheToks[j].k # BraceClose}
Inside(o) == (o[1]+1)..(o[2]-1)
\* the value the object gives key: that of its last member of that name
ObjValue(o, key) ==
    LET js == {j \in Inside(o) : TheToks[j].k = key}
    IN TheToks[CHOOSE j \in js : \A h \in js : h <= j].v
HasKey(o, key) == \E j \in Inside(o) : TheToks[j].k = key
AllNumeric(o) == \A key \in ThreeKeys : HasKey(o, key) /\ ObjValue(o, key) >= 0

InPatternOrder(o) ==
    \E a, b, c \in Inside(o) :
        /\ a < b /\ b < c
        /\ TheToks[a].k = PromptKey
        /\ TheToks[b].k = CompletionKey
        /\ TheToks[c].k = TotalKey
\* the object is flat JSON: members and white space only, no nested brace
Flat(o) == \A j \in Inside(o) : TheToks[j].k \in FieldKeys \/ TheToks[j] = Sp
Leftmost(o) == \A q \in UsageObjects : InPatternOrder(q) => o[1] <= q[1]

C10_CostIsLinear ==
    \A i \in 1..Len(blocks) :
        LET usage == blocks[i].parsed_usage
            p == UsageGet(usage, PromptKey)
            c == UsageGet(usage, CompletionKey)
        IN /\ usage # <<>> =>
                 /\ p >= 0 /\ c >= 0
                 /\ usage["cost_usd"] = 15 * p + 60 * c
                 /\ (p = 10 /\ c = 5) => usage["cost_usd"] = 450
                 /\ (p = 0 /\ c = 0) => usage["cost_usd"] = 0
           /\ pc = "analysed" =>
                 /\ block_costs[1][i] = p * prompt_token_cost + c * completion_token_cost
                 /\ (PromptRateKey \notin DOMAIN usage) => block_costs[1][i] = 15 * p + 60 * c

\* C10 witness: the block of 10 prompt and 5 completion tokens, costed by both
C10_Witness ==
    /\ pc = "analysed"
    /\ blocks[1].parsed_usage # <<>>
    /\ blocks[1].parsed_usage[PromptKey] = 10
    /\ blocks[1].parsed_usage[CompletionKey] = 5
    /\ blocks[1].parsed_usage["cost_usd"] = 450
    /\ block_costs[1][1] = 450

----------------------------------------------------------------------------
(* Task matching (SpecMatch) *)
TaskIds == {<<"X">>, <<"y">>, <<"w">>}
Descriptions == {<<"a">>, <<"c", ".", "d", ".", "e">>, <<"A", ".">>}
ExpectedOutputs == {<<"o">>, <<"O", "k">>, <<>>}
TaskHints == {<<>>, <<"x">>, <<"Y", "z">>, <<"z", "A">>, <<"d">>, <<"e">>}
Responses == {<<>>, <<"o", "K">>, <<"z">>}

\* the task map in declaration order: the identifiers are dict keys, so distinct
TaskLists ==
    {ts \in UNION {[1..n -> [task_id : TaskIds, description : Descriptions,
                            expected_output : ExpectedOutputs]] : n \in 0..MaxTasks} :
        \A i, j \in 1..Len(ts) : i # j => ts[i].task_id # ts[j].task_id}

MatchInit ==
    /\ FilterIdle
    /\ tasks \in TaskLists
    /\ block \in [task_hint : TaskHints, raw_response : Responses]
    /\ task_id = None
    /\ agents = <<>> /\ agent_id = None /\ tool_output = None /\ tool_success = None
    /\ lines = <<>> /\ blocks = <<>> /\ current_block = NoBlock
    /\ inside_request = FALSE /\ inside_response = FALSE
    /\ token_usage_info = <<>> /\ idx = 0 /\ pc = "match"
    /\ UaIdle /\ WfIdle

MatchNext == MatchTask

SpecMatch == MatchInit /\ [][MatchNext]_vars

\* the text of str before its first '.', and between its first and second '.'
Dots1(str) == {i \in 1..Len(str) : str[i] = "."}
Fragment1(str) ==
    IF Dots1(str) = {} THEN str ELSE SubSeq(str, 1, Min(Dots1(str)) - 1)
HasFragment2(str) == Dots1(str) # {}
Fragment2(str) ==
    LET d1 == Min(Dots1(str))
        rest == {i \in Dots1(str) : i > d1}
    IN SubSeq(str, d1 + 1, IF rest = {} THEN Len(str) ELSE Min(rest) - 1)

Rule1(t) ==
    LET hint == Lower(block.task_hint)
        desc == Lower(t.description)
    IN \/ In(Lower(t.task_id), hint)
       \/ In(Fragment1(desc), hint)
       \/ HasFragment2(desc) /\ In(Fragment2(desc), hint)
Rule2(t) == In(Lower(t.expected_output), Lower(block.raw_response))
FirstIndex(R(_)) ==
    LET hits == {i \in 1..Len(tasks) : R(tasks[i])}
    IN IF hits = {} THEN 0 ELSE Min(hits)

\* C8: a block gets the first task in declaration order that satisfies rule
\* (1): its identifier, or one of the first two '.'-separated fragments of its
\* description, is contained case-insensitively in the task hint; only when
\* no declared task satisfies rule (1), the first task whose expected output
\* is contained in the response text; otherwise no task.  A rule-(1) match
\* of a later task beats a rule-(2) match of an earlier one.
C8_Rule1BeforeRule2 ==
    pc = "matched" =>
        IF FirstIndex(Rule1) # 0 THEN task_id = Some(tasks[FirstIndex(Rule1)].task_id)
        ELSE IF FirstIndex(Rule2) # 0 THEN task_id = Some(tasks[FirstIndex(Rule2)].task_id)
        ELSE task_id = None

\* C8 witness: the first task satisfies rule (2) only, the second rule (1),
\* and the block got the second
C8_Witness ==
    /\ pc = "matched"
    /\ Len(tasks) = 2
    /\ ~Rule1(tasks[1]) /\ Rule2(tasks[1])
    /\ Rule1(tasks[2])
    /\ task_id = Some(tasks[2].task_id)

----------------------------------------------------------------------------
(* The workflow graph (SpecWf) *)
WfIds == {"a", "b", "c", ""}
DepLists == {<<>>, <<"a">>, <<"a", "b">>, <<"b", "c">>, <<"a", "b", "c">>}

\* the task map in declaration order
WfTaskLists ==
    {ts \in UNION {[1..n -> [task_id : WfIds, dependencies : DepLists]] :
                     n \in 0..MaxTasks} :
        \A i, j \in 1..Len(ts) : i # j => ts[i].task_id # ts[j].task_id}

WfInit ==
    \* any task map the constructor accepts: load_tasks only lists other
    \* declared tasks as dependencies, CrewAITask takes any list of strings
    /\ wf_tasks \in WfTaskLists
    \* cli.py lines 95-97: the blocks come from ConfigAwareLogParser built on
    \* the same task map, so a block's task_id is a declared task or None
    /\ enhanced_blocks \in
         UNION {[1..n -> [task_id : {None} \cup
                                      {Some(wf_tasks[i].task_id) : i \in 1..Len(wf_tasks)},
                          agent_id : {None}, parsed_usage : {None}]] :
                  n \in 0..MaxWfBlocks}
    /\ nodes = <<>>
    /\ mermaid_edges = {}
    /\ mermaid_code = <<>>
    /\ task_report = None /\ agent_report = None
    /\ lines = <<>> /\ blocks = <<>> /\ current_block = NoBlock
    /\ inside_request = FALSE /\ inside_response = FALSE
    /\ token_usage_info = <<>> /\ idx = 0 /\ pc = "wf"
    /\ MatchIdle /\ UaIdle /\ FilterIdle

WfNext == Reconstruct \/ GenerateMermaidDiagram

SpecWf == WfInit /\ [][WfNext]_vars

Declared == {wf_tasks[i].task_id : i \in 1..Len(wf_tasks)}
Matched == {t \in WfIds \ {""} : \E i \in 1..Len(enhanced_blocks) :
                                     enhanced_blocks[i].task_id = Some(t)}
DeclaredDeps(t) ==
    UNION {Range(wf_tasks[i].dependencies) :
             i \in {j \in 1..Len(wf_tasks) : wf_tasks[j].task_id = t}}

C3_DependentsMirrorDependencies ==
    pc \in {"built", "rendered"} =>
        \A x, y \in DOMAIN nodes :
            y \in nodes[x].dependents <=> x \in nodes[y].dependencies

\* C3 witness: a built graph with a self-dependency and a two-task cycle
C3_Witness ==
    /\ pc = "built"
    /\ \E x \in DOMAIN nodes : x \in nodes[x].dependencies
    /\ \E x, y \in DOMAIN nodes :
         /\ x # y
         /\ y \in nodes[x].dependencies
         /\ x \in nodes[y].dependencies

----------------------------------------------------------------------------
(* Strategy (3) of the extraction (SpecUsage) *)
\* the result comes from the line-by-line loop: strategies (1) and (2) failed
ByStrategy3 ==
    /\ Extracted
    /\ LET m == UsageMatch(TheToks) IN m = None \/ ~SpanIsJson(TheToks, m)
    /\ \E key \in ThreeKeys : FirstNumeric(TheToks, key) = None
\* the lines that carry the label of key together with a number
Occurrences(key) ==
    {i \in 1..Len(TheRaw) : Contains(TheRaw[i], key) /\ LineDigits(TheRaw[i]) # None}

\* C20 as stated: in the line-by-line strategy (3) each of prompt_tokens,
\* completion_tokens and total_tokens takes the value of its first occurrence
\* in the text; a later line carrying the same label never changes it.
C20_FirstOccurrenceKept ==
    (ByStrategy3 /\ blocks[1].parsed_usage # <<>>) =>
        \A key \in ThreeKeys :
            Occurrences(key) # {} =>
                blocks[1].parsed_usage[key] = LineDigits(TheRaw[Min(Occurrences(key))])[1]

----------------------------------------------------------------------------
(* The nodes of the workflow graph (SpecWf) *)
\* the positions of the blocks that carry task identifier t
BlocksOf(t) == {i \in 1..Len(enhanced_blocks) : enhanced_blocks[i].task_id = Some(t)}

\* C13: reconstruct creates exactly one node per task id carried by at least
\* one block: the keys of the returned mapping are the non-empty task_id
\* values among the blocks, each node's block list is exactly the blocks with
\* that task_id, in input order, and a declared task with no matched block
\* has no node.
C13_OneNodePerMatchedTask ==
    pc \in {"built", "rendered"} =>
        /\ \A t \in WfIds : t \in DOMAIN nodes <=> (t # "" /\ BlocksOf(t) # {})
        /\ DOMAIN nodes \subseteq WfIds
        /\ \A t \in DOMAIN nodes :
              LET bs == nodes[t].blocks
              IN /\ nodes[t].task_id = t
                 /\ {bs[k] : k \in 1..Len(bs)} = BlocksOf(t)
                 /\ \A k \in 1..(Len(bs) - 1) : bs[k] < bs[k + 1]
        /\ \A i \in 1..Len(wf_tasks) :
              BlocksOf(wf_tasks[i].task_id) = {} => wf_tasks[i].task_id \notin DOMAIN nodes

\* C13 witness: a node holding two blocks, and a declared task without node
C13_Witness ==
    /\ pc = "built"
    /\ \E t \in DOMAIN nodes : Len(nodes[t].blocks) = 2
    /\ \E i \in 1..Len(wf_tasks) : wf_tasks[i].task_id \notin DOMAIN nodes

----------------------------------------------------------------------------
(* The rendered diagram (SpecWf) *)
NodeCount == Cardinality(DOMAIN nodes)
Positions(line) == {k \in 1..Len(mermaid_code) : mermaid_code[k] = line}
DependencyPairs ==
    {pr \in (DOMAIN nodes) \X (DOMAIN nodes) : pr[2] \in nodes[pr[1]].dependencies}

\* C14: generate_mermaid_diagram emits one node declaration per node and,
\* after all node declarations, exactly one edge statement "dep --> task" per
\* (task, dependency) pair of the built graph, directed from the dependency
\* to the dependent; a cyclic declaration (A on B and B on A, or A on itself)
\* is rendered as it is, every edge of the cycle included.
C14_OneEdgeLinePerDependency ==
    pc = "rendered" =>
        /\ Len(mermaid_code) = 1 + NodeCount + Cardinality(DependencyPairs)
        /\ mermaid_code[1] = GraphLine
        /\ \A t \in DOMAIN nodes :
              \E k \in 2..(1 + NodeCount) :
                  Positions(NodeLine(nodes, enhanced_blocks, t)) = {k}
        /\ \A pr \in DependencyPairs :
              \E k \in (2 + NodeCount)..Len(mermaid_code) :
                  /\ Positions([kind |-> "-->", from |-> pr[2], to |-> pr[1]]) = {k}
        /\ \A k \in (2 + NodeCount)..Len(mermaid_code) :
              /\ mermaid_code[k].kind = "-->"
              /\ <<mermaid_code[k].to, mermaid_code[k].from>> \in DependencyPairs

\* C14 witness: a rendered graph with a self-dependency and a two-task cycle
C14_Witness ==
    /\ pc = "rendered"
    /\ \E x \in DOMAIN nodes : EdgeLine(x, x) \in Range(mermaid_code)
    /\ \E x, y \in DOMAIN nodes :
         /\ x # y
         /\ EdgeLine(x, y) \in Range(mermaid_code)
         /\ EdgeLine(y, x) \in Range(mermaid_code)

----------------------------------------------------------------------------
(* The text before the first request marker (SpecSeg) *)
\* where a line after the request line of its piece ends up
ToBuffer(l) == ~HasCost(l) /\ (HasRaw(l) \/ ~HasErr(l))
ExpectedRequest(piece) ==
    <<piece[1]>> \o
    SelectSeq(SubSeq(piece, 2, FirstFrom2(piece, Switches) - 1), ToBuffer)
ExpectedResponse(piece) ==
    SelectSeq(SubSeq(piece, FirstFrom2(piece, Switches), Len(piece)), ToBuffer)
ExpectedErrors(piece) == StripAll(SelectSeq(Tail(piece), OnlyErr))
NoMarkerYet == \A k \in 1..Len(lines) : ~Contains(lines[k], ReqMarker)

\* C18: the lines that precede the first request-marker line appear in no
\* block: every block's litellm_request, raw_response and api_errors are made
\* of the lines from its own request-marker line on and of nothing else, also
\* when the earlier lines contain "RAW RESPONSE:" or "APIStatusError"; a log
\* without any request marker yields an empty block sequence.
C18_TextBeforeFirstMarkerDiscarded ==
    /\ Len(Opened) = Len(LogPieces)
    /\ \A i \in 1..Len(Opened) :
          /\ Opened[i].litellm_request = ExpectedRequest(LogPieces[i])
          /\ Opened[i].raw_response = ExpectedResponse(LogPieces[i])
          /\ Opened[i].api_errors = ExpectedErrors(LogPieces[i])
    /\ NoMarkerYet =>
          /\ pc # "raised"
          /\ blocks = <<>>
          /\ ~IsOpen(current_block)
          /\ ~inside_request /\ ~inside_response

\* C18 witness: a returned log whose first two lines, a response marker and
\* an API error, come before its only request marker
C18_Witness ==
    /\ pc = "returned"
    /\ Len(lines) = 4
    /\ HasRaw(lines[1]) /\ ~Contains(lines[1], ReqMarker)
    /\ HasErr(lines[2]) /\ ~Contains(lines[2], ReqMarker)
    /\ Contains(lines[3], ReqMarker)
    /\ Len(blocks) = 1
    /\ blocks[1].raw_response # <<>>

----------------------------------------------------------------------------
(* Latencies (SpecLat) *)
\* the blocks whose start_time is a date: their positions in the batch
Dated == {i \in 1..Len(parsed_blocks) :
             /\ parsed_blocks[i].start_time # None
             /\ parsed_blocks[i].start_time[1] >= 0}
StampOf(id) ==
    LET i == CHOOSE i \in 1..Len(parsed_blocks) : parsed_blocks[i].id = id
    IN parsed_blocks[i].start_time[1]
DatedIds == {parsed_blocks[i].id : i \in Dated}
\* the sum of the latencies of the blocks that satisfy Member(_) and have one
LatencySum(rtm, Member(_)) ==
    LET timed == SelectSeq(parsed_blocks, LAMBDA b : Member(b) /\ b.id \in DOMAIN rtm)
    IN Sum([k \in 1..Len(timed) |-> rtm[timed[k].id]])

\* C19: latency is computed globally: the blocks with a parseable start
\* timestamp are sorted ascending and the block at sorted position i >= 1 gets
\* timestamp(i) - timestamp(i-1), never a negative value; the earliest such
\* block and every block without a parseable timestamp get no latency and add
\* nothing to the latency sum of their group or of the summary row.
C19_LatencyFromSortedNeighbour ==
    pc = "analysed" =>
        LET rtm == response_times_map[1]
        IN /\ DOMAIN rtm \subseteq DatedIds
           /\ Cardinality(DOMAIN rtm) =
                 IF DatedIds = {} THEN 0 ELSE Cardinality(DatedIds) - 1
           /\ \A id \in DOMAIN rtm : rtm[id] >= 0
           /\ \E sorted \in Orders(DatedIds) :
                 /\ \A k \in 2..Len(sorted) : StampOf(sorted[k-1]) <= StampOf(sorted[k])
                 /\ \A k \in 2..Len(sorted) :
                       /\ sorted[k] \in DOMAIN rtm
                       /\ rtm[sorted[k]] = StampOf(sorted[k]) - StampOf(sorted[k-1])
           /\ report # None =>
                 LET rows == report[1]
                 IN /\ \A k \in 1..(Len(rows) - 1) :
                          rows[k].ResponseTime =
                             ShownTime(LatencySum(rtm,
                                LAMBDA b : truncate_task_hint(b.task_hint) = rows[k].Task))
                    /\ rows[Len(rows)].ResponseTime =
                          ShownTime(LatencySum(rtm, LAMBDA b : TRUE))

\* C19 witness: an analysed batch with an unparseable timestamp, a missing
\* one and two dates, given in descending order, one second apart or more
C19_Witness ==
    /\ pc = "analysed"
    /\ Len(parsed_blocks) = 3
    /\ \E i, j, k \in 1..3 :
          /\ parsed_blocks[i].start_time = Some(-1)
          /\ j < k
          /\ parsed_blocks[j].start_time = Some(3)
          /\ parsed_blocks[k].start_time = Some(1)
          /\ response_times_map[1] = (parsed_blocks[j].id :> 2)
    /\ report # None
    /\ report[1][Len(report[1])].ResponseTime = Some(2)


----------------------------------------------------------------------------
(* analyze_task_performance and analyze_agent_performance
   (task_aware_analyzer.py), on EnhancedParsedBlock records *)

\* ConfigAwareLogParser.parse_log_file, lines 66-73: the TokenUsage of a block,
\* None when the block dict has no (or an empty) parsed_usage
TokenUsage(usage) ==
    IF usage = <<>> THEN None
    ELSE Some([prompt_tokens |-> UsageGet(usage, PromptKey),
               completion_tokens |-> UsageGet(usage, CompletionKey),
               total_tokens |-> UsageGet(usage, TotalKey),
               cost_usd |-> UsageGet(usage, "cost_usd")])

\* "if block.task_id:" / "if block.agent_id:": None and "" are skipped
Truthy(x) == x # None /\ x # Some("")

\* lines 26-29 and 113-116: the sums over the blocks that carry a TokenUsage
UsageSums(bs) ==
    LET used == SelectSeq(bs, LAMBDA b : b.parsed_usage # None)
        col(f(_)) == Sum([k \in 1..Len(used) |-> f(used[k].parsed_usage[1])])
        total(u) == u.total_tokens
        prompt(u) == u.prompt_tokens
        completion(u) == u.completion_tokens
        cost(u) == u.cost_usd
    IN [TotalTokens |-> col(total), PromptTokens |-> col(prompt),
        CompletionTokens |-> col(completion), Cost |-> col(cost)]

\* lines 31-35 and 118-122: the running totals, one addition per group
RunningTotals(rows) ==
    LET col(f(_)) == Sum([k \in 1..Len(rows) |-> f(rows[k])])
        total(r) == r.TotalTokens
        prompt(r) == r.PromptTokens
        completion(r) == r.CompletionTokens
        cost(r) == r.Cost
    IN [TotalTokens |-> col(total), PromptTokens |-> col(prompt),
        CompletionTokens |-> col(completion), Cost |-> col(cost)]

Totals == "TOTALS"

\* the identifiers of the model in the order Python compares strings
IdOrder == <<"a", "b", "q", "r">>

\* lines 22-71: the row of one task
TaskRow(tid, bs) ==
    LET blocks_list == SelectSeq(bs, LAMBDA b : b.task_id = Some(tid))
    IN [TaskID |-> tid,
        \* lines 24 and 60: blocks_list[0].agent_id or "Unknown"
        Agent |-> IF Truthy(blocks_list[1].agent_id) THEN blocks_list[1].agent_id[1]
                  ELSE "Unknown"]
       @@ UsageSums(blocks_list)

\* lines 74-86
TaskTotalsRow(rows) == [TaskID |-> Totals, Agent |-> ""] @@ RunningTotals(rows)

\* lines 8-94: rows sorted by "Task ID", the totals row appended to a
\* non-empty frame only
analyze_task_performance(bs) ==
    LET ids == SelectSeq(IdOrder, LAMBDA t : \E i \in 1..Len(bs) : bs[i].task_id = Some(t))
        rows == [k \in 1..Len(ids) |-> TaskRow(ids[k], bs)]
    IN IF rows = <<>> THEN rows ELSE Append(rows, TaskTotalsRow(rows))

\* lines 111-134: the row of one agent
AgentRow(aid, bs) ==
    LET mine == SelectSeq(bs, LAMBDA b : b.agent_id = Some(aid))
    IN [AgentID |-> aid,
        UniqueTasks |-> Some(Cardinality({mine[k].task_id :
                                 k \in {j \in 1..Len(mine) : Truthy(mine[j].task_id)}}))]
       @@ UsageSums(mine)

\* lines 137-145
AgentTotalsRow(rows) == [AgentID |-> Totals, UniqueTasks |-> None] @@ RunningTotals(rows)

\* line 149: the orders sort_values("Total Tokens", ascending=False) may give
\* to the agents (equal totals in either order)
AgentOrders(bs) ==
    LET ids == {a \in {IdOrder[k] : k \in 1..Len(IdOrder)} :
                   \E i \in 1..Len(bs) : bs[i].agent_id = Some(a)}
    IN {o \in [1..Cardinality(ids) -> ids] :
          /\ \A i, j \in DOMAIN o : i # j => o[i] # o[j]
          /\ \A i, j \in DOMAIN o :
                i < j => AgentRow(o[i], bs).TotalTokens >= AgentRow(o[j], bs).TotalTokens}

\* lines 97-153, for one of these orders
analyze_agent_performance(bs, order) ==
    LET rows == [k \in 1..Len(order) |-> AgentRow(order[k], bs)]
    IN IF rows = <<>> THEN rows ELSE Append(rows, AgentTotalsRow(rows))

\* cli.main, line 87
AnalyzeTaskPerformance ==
    /\ pc \in {"analysis", "analysed", "wf", "built", "rendered"}
    /\ task_report = None
    /\ task_report' = Some(analyze_task_performance(enhanced_blocks))
    /\ UNCHANGED <<wf_tasks, enhanced_blocks, nodes, mermaid_edges, mermaid_code,
                   agent_report>>
    /\ UNCHANGED notWf

\* cli.main, line 90
AnalyzeAgentPerformance ==
    /\ pc \in {"analysis", "analysed"}
    /\ agent_report = None
    /\ \E order \in AgentOrders(enhanced_blocks) :
          agent_report' = Some(analyze_agent_performance(enhanced_blocks, order))
    /\ UNCHANGED <<wf_tasks, enhanced_blocks, nodes, mermaid_edges, mermaid_code,
                   task_report>>
    /\ UNCHANGED notWf

----------------------------------------------------------------------------
(* The three grouped reports on one batch of blocks *)
Rep(c, n) == [i \in 1..n |-> c]

\* task hints around the truncation threshold
Hint41 == Rep("a", 41)
Hint42 == Rep("a", 40) \o <<"b", "b">>            \* differs from Hint41 from 41 on
Hint41b == Rep("a", 37) \o <<"b", "b", "b", "b">> \* differs from Hint41 from 38 on
Hint41c == Rep("a", 36) \o <<"b">> \o Rep("a", 4) \* differs from Hint41 at 37
Hint40 == Rep("a", 40)
Hint1 == <<"a">>

Answer == Some(<<"d">>)
Usage1 == ("cost_usd" :> 450) @@ Triple(10, 5, 15)
Usage2 == Triple(7, 3, 10)

ReportKind(h, fa, u, t, a) ==
    [task_hint |-> h, final_answer |-> fa, usage |-> u, task_id |-> t, agent_id |-> a]

ReportKinds ==
    {ReportKind(Hint41, Answer, Usage1, Some("a"), Some("r")),
     ReportKind(Hint42, None, Usage2, Some("a"), Some("q")),
     ReportKind(Hint41b, Some(<<>>), <<>>, Some("b"), Some("r")),
     ReportKind(Hint41c, Answer, Usage1, None, Some("q")),
     ReportKind(Hint40, None, Usage2, Some("b"), None),
     ReportKind(Hint1, Answer, Usage2, Some(""), Some("")),
     ReportKind(<<>>, Answer, <<>>, Some("b"), Some("q")),
     ReportKind(Hint41, None, <<>>, None, None)}

ReportInit ==
    /\ FilterIdle
    /\ \E n \in 0..MaxBatch : \E ks \in [1..n -> ReportKinds] :
          /\ parsed_blocks = [i \in 1..n |->
                [id |-> i, start_time |-> None, parsed_usage |-> ks[i].usage,
                 task_hint |-> ks[i].task_hint, final_answer |-> ks[i].final_answer]]
          /\ enhanced_blocks = [i \in 1..n |->
                [task_id |-> ks[i].task_id, agent_id |-> ks[i].agent_id,
                 parsed_usage |-> TokenUsage(ks[i].usage)]]
    /\ first_blocks = parsed_blocks
    /\ prompt_token_cost = DefaultPromptRate
    /\ completion_token_cost = DefaultCompletionRate
    /\ response_times_map = None /\ block_costs = None /\ report = None
    /\ wf_tasks = <<>> /\ nodes = <<>> /\ mermaid_edges = {} /\ mermaid_code = <<>>
    /\ task_report = None /\ agent_report = None
    /\ lines = <<>> /\ blocks = <<>> /\ current_block = NoBlock
    /\ inside_request = FALSE /\ inside_response = FALSE
    /\ token_usage_info = <<>> /\ idx = 0 /\ pc = "analysis"
    /\ MatchIdle

ReportNext == UnifiedAnalysis \/ AnalyzeTaskPerformance \/ AnalyzeAgentPerformance

SpecReport == ReportInit /\ [][ReportNext]_vars

\* the group rows of a table (all rows but the last)
GroupRows(rows) == SubSeq(rows, 1, Len(rows) - 1)

Long(h) == Len(h) > 40
SameUpToCut(h1, h2) == Long(h1) /\ Long(h2) /\ SubSeq(h1, 1, 37) = SubSeq(h2, 1, 37)
CutOf(r, h) ==
    /\ Len(r.Task) = 40
    /\ SubSeq(r.Task, 38, 40) = <<".", ".", ".">>
    /\ SubSeq(r.Task, 1, 37) = SubSeq(h, 1, 37)

\* C11: a hint of more than 40 characters is reported under a key of exactly
\* 40 characters that ends in "..." and starts with the hint's first 37
\* characters; all hints of more than 40 characters that agree up to the
\* truncation point are counted in that one group row of unified_analysis
C11_LongHintsShareOneGroup ==
    (pc = "analysed" /\ report # None) =>
        LET rows == GroupRows(report[1])
        IN \A i \in 1..Len(parsed_blocks) :
              Long(parsed_blocks[i].task_hint) =>
                 \E k \in 1..Len(rows) :
                    /\ CutOf(rows[k], parsed_blocks[i].task_hint)
                    /\ \A k2 \in 1..Len(rows) :
                          CutOf(rows[k2], parsed_blocks[i].task_hint) => k2 = k
                    /\ rows[k].BlockCount =
                          Cardinality({j \in 1..Len(parsed_blocks) :
                              \/ SameUpToCut(parsed_blocks[i].task_hint,
                                             parsed_blocks[j].task_hint)
                              \/ parsed_blocks[j].task_hint = rows[k].Task})

C11_Witness ==
    /\ pc = "analysed" /\ report # None
    /\ \E i, j \in 1..Len(parsed_blocks) :
          /\ parsed_blocks[i].task_hint # parsed_blocks[j].task_hint
          /\ SameUpToCut(parsed_blocks[i].task_hint, parsed_blocks[j].task_hint)
          /\ \E k \in 1..(Len(report[1]) - 1) :
                /\ CutOf(report[1][k], parsed_blocks[i].task_hint)
                /\ report[1][k].BlockCount >= 2
    /\ Len(report[1]) = 3

\* the raw counts and sums over the blocks handed to unified_analysis
RawAnswers == Cardinality({i \in 1..Len(parsed_blocks) :
                              /\ parsed_blocks[i].final_answer # None
                              /\ parsed_blocks[i].final_answer # Some(<<>>)})
RawUsage(key) == Sum([i \in 1..Len(parsed_blocks) |->
                         UsageGet(parsed_blocks[i].parsed_usage, key)])

ColumnSum(rows, col) == Sum([k \in 1..Len(rows) |-> rows[k][col]])
TokenColumns == {"PromptTokens", "CompletionTokens", "TotalTokens", "Cost"}

UnifiedTotalsLast(rows) ==
    /\ rows # <<>>
    /\ rows[Len(rows)].Task = <<"T", "O", "T", "A", "L">>
    /\ rows[Len(rows)].Step = 0
    /\ \A k \in 1..(Len(rows) - 1) : rows[k].Step # 0
    /\ \A col \in TokenColumns : rows[Len(rows)][col] = ColumnSum(GroupRows(rows), col)
    /\ rows[Len(rows)].PromptTokens = RawUsage(PromptKey)
    /\ rows[Len(rows)].CompletionTokens = RawUsage(CompletionKey)
    /\ rows[Len(rows)].TotalTokens = RawUsage(TotalKey)
    /\ rows[Len(rows)].FinalAnswers = RawAnswers
    /\ rows[Len(rows)].BlockCount = Len(parsed_blocks)

TaskTotalsLast(rows) ==
    /\ rows # <<>>
    /\ rows[Len(rows)].TaskID = "TOTALS"
    /\ \A k \in 1..(Len(rows) - 1) : rows[k].TaskID # "TOTALS"
    /\ \A col \in TokenColumns : rows[Len(rows)][col] = ColumnSum(GroupRows(rows), col)

AgentTotalsLast(rows) ==
    /\ rows # <<>>
    /\ rows[Len(rows)].AgentID = "TOTALS"
    /\ \A k \in 1..(Len(rows) - 1) : rows[k].AgentID # "TOTALS"
    /\ \A col \in TokenColumns : rows[Len(rows)][col] = ColumnSum(GroupRows(rows), col)

\* C12 as stated: for every block sequence, each of the three reports ends
\* with its one totals row, which holds the sums of the group rows (and, in
\* unified_analysis, the raw count of final answers over the raw count of blocks)
C12_TotalsRowAlways ==
    /\ pc = "analysed" => (report # None /\ UnifiedTotalsLast(report[1]))
    /\ task_report # None => TaskTotalsLast(task_report[1])
    /\ agent_report # None => AgentTotalsLast(agent_report[1])

SomeHint == parsed_blocks # <<>>
SomeTask == \E i \in 1..Len(enhanced_blocks) :
               enhanced_blocks[i].task_id \notin {None, Some("")}
SomeAgent == \E i \in 1..Len(enhanced_blocks) :
                enhanced_blocks[i].agent_id \notin {None, Some("")}

\* C12, amended: a report with at least one group ends with its one totals
\* row, which holds the sums of the group rows (and, in unified_analysis, the
\* raw count of final answers over the raw count of blocks); a report without
\* any group has no totals row: unified_analysis returns nothing, the other
\* two return an empty table
C12_TotalsRowWhenGrouped ==
    /\ pc = "analysed" =>
          IF SomeHint THEN report # None /\ UnifiedTotalsLast(report[1])
          ELSE report = None
    /\ task_report # None =>
          IF SomeTask THEN TaskTotalsLast(task_report[1]) ELSE task_report[1] = <<>>
    /\ agent_report # None =>
          IF SomeAgent THEN AgentTotalsLast(agent_report[1]) ELSE agent_report[1] = <<>>

C12_Witness ==
    /\ pc = "analysed" /\ report # None /\ task_report # None /\ agent_report # None
    /\ Len(report[1]) = 3 /\ Len(task_report[1]) = 3 /\ Len(agent_report[1]) = 3
    /\ report[1][3].FinalAnswers = 1 /\ report[1][3].BlockCount = 3
    /\ task_report[1][3].TotalTokens > 0


----------------------------------------------------------------------------
(* Agent matching (SpecAgent) *)
AgentIds == {"r1", "r2", "r3"}
Roles == {<<"A", "x">>, <<"x">>, <<"K">>, <<>>}
Requests == {<<>>, <<"z", "a", "X", "k">>, <<"k">>, <<"z">>}

\* the agent map in declaration order: the identifiers are dict keys, so distinct
AgentLists ==
    {ags \in UNION {[1..n -> [agent_id : AgentIds, role : Roles]] : n \in 0..MaxTasks} :
        \A i, j \in 1..Len(ags) : i # j => ags[i].agent_id # ags[j].agent_id}

AgentInit ==
    /\ FilterIdle
    /\ agents \in AgentLists
    /\ block \in [litellm_request : Requests]
    /\ agent_id = None
    /\ tasks = <<>> /\ task_id = None /\ tool_output = None /\ tool_success = None
    /\ lines = <<>> /\ blocks = <<>> /\ current_block = NoBlock
    /\ inside_request = FALSE /\ inside_response = FALSE
    /\ token_usage_info = <<>> /\ idx = 0 /\ pc = "match"
    /\ UaIdle /\ WfIdle

AgentNext == MatchAgent

SpecAgent == AgentInit /\ [][AgentNext]_vars

SameLetter(c, d) == LowerChar(c) = LowerChar(d)
ContainedIgnoringCase(sub, str) ==
    \E off \in 0..(Len(str) - Len(sub)) :
        \A j \in 1..Len(sub) : SameLetter(sub[j], str[off + j])
RoleHits == {i \in 1..Len(agents) :
                ContainedIgnoringCase(agents[i].role, block.litellm_request)}

\* C15: the block gets the first agent, in declaration order, whose role is
\* contained in the request text when upper and lower case are not told
\* apart; it gets no agent when no role is contained, in particular when no
\* agent is configured
C15_FirstAgentWhoseRoleIsContained ==
    pc = "matched" =>
        IF RoleHits = {} THEN agent_id = None
        ELSE agent_id = Some(agents[Min(RoleHits)].agent_id)

\* C15 witness: two agents match, the first one only when case is ignored,
\* and the first one is returned
C15_Witness ==
    /\ pc = "matched"
    /\ Len(agents) >= 2
    /\ RoleHits = {1, 2}
    /\ ~In(agents[1].role, block.litellm_request)
    /\ agent_id = Some(agents[1].agent_id)

----------------------------------------------------------------------------
(* Tool information (SpecTool) *)
MaxPieces == 5       \* pieces of a response text

Pieces == {ObservationMark, Blank, LineBreak, "w", "error", "ERROR"}

ToolInit ==
    /\ FilterIdle
    /\ \E n \in 0..MaxPieces : \E text \in [1..n -> Pieces] :
          block = [raw_response |-> text]
    /\ tool_output = None /\ tool_success = None
    /\ tasks = <<>> /\ task_id = None /\ agents = <<>> /\ agent_id = None
    /\ lines = <<>> /\ blocks = <<>> /\ current_block = NoBlock
    /\ inside_request = FALSE /\ inside_response = FALSE
    /\ token_usage_info = <<>> /\ idx = 0 /\ pc = "match"
    /\ UaIdle /\ WfIdle

ToolNext == ExtractToolInfo

SpecTool == ToolInit /\ [][ToolNext]_vars

ErrorWords == {"error", "ERROR", "Error"}
MentionsError(text) == \E i \in 1..Len(text) : text[i] \in ErrorWords
CleanOutput ==
    /\ tool_output # None
    /\ tool_output[1] # <<>>
    /\ ~MentionsError(tool_output[1])

\* C16: tool_success is true exactly when a non-empty tool output was
\* captured that does not mention "error" in any case; otherwise it is false
\* exactly when the response text mentions "error" anywhere; otherwise it is
\* absent.  It is never true when the captured output mentions "error".
C16_ToolSuccessThreeValued ==
    pc = "matched" =>
        /\ tool_success = Some(TRUE) <=> CleanOutput
        /\ tool_success = Some(FALSE) <=>
              (~CleanOutput /\ MentionsError(block.raw_response))
        /\ tool_success = None <=>
              (~CleanOutput /\ ~MentionsError(block.raw_response))
        /\ (tool_output # None /\ MentionsError(tool_output[1]))
              => tool_success # Some(TRUE)
        /\ tool_output # None <=>
              \E i \in 1..Len(block.raw_response) :
                  block.raw_response[i] = "Observation:"

\* C16 witness: a clean output before a blank line, "error" after it
C16_Witness ==
    /\ pc = "matched"
    /\ tool_output = Some(<<"w">>)
    /\ MentionsError(block.raw_response)
    /\ tool_success = Some(TRUE)


----------------------------------------------------------------------------
(* Thought, action and final answer of one block (SpecFields) *)
FieldPieces == {ThoughtMark, ActionMark, FinalMark, OpenBrace, CloseBrace,
                EmptyChoices, NewLine, "w"}

FieldsInit ==
    /\ FilterIdle
    /\ \E n \in 0..MaxPieces : \E text \in [1..n -> FieldPieces] :
          blocks = <<[NewBlock(None, <<>>) EXCEPT !.raw_response = text]>>
    /\ lines = <<>> /\ current_block = NoBlock
    /\ inside_request = FALSE /\ inside_response = FALSE
    /\ token_usage_info = <<>> /\ idx = 1 /\ pc = "fields"
    /\ MatchIdle /\ UaIdle /\ WfIdle

FieldsNext == ExtractFields

SpecFields == FieldsInit /\ [][FieldsNext]_vars

Processed == {i \in 1..Len(blocks) : pc = "fields" /\ i < idx}
NothingExtracted(b) == b.thought = <<>> /\ b.action = <<>> /\ b.final_answer = <<>>

\* C17: a processed block has parsing_error set only if the JSON fallback was
\* attempted for it and ended in a decode failure; a processed block from
\* which neither thought, action nor final answer was extracted, and whose
\* fallback did not end in a decode failure, has parsing_error false
C17_ParsingErrorOnlyAfterDecodeFailure ==
    \A i \in Processed :
        /\ blocks[i].parsing_error => JsonFallback(blocks[i]) = "decode failure"
        /\ (NothingExtracted(blocks[i]) /\ JsonFallback(blocks[i]) # "decode failure")
              => ~blocks[i].parsing_error

\* C17 witness: a processed block with a response text from which nothing
\* was extracted and whose fallback found no JSON text, not flagged
C17_Witness ==
    \E i \in Processed :
        /\ blocks[i].raw_response # <<>>
        /\ NothingExtracted(blocks[i])
        /\ JsonFallback(blocks[i]) = "no json"
        /\ ~blocks[i].parsing_error


----------------------------------------------------------------------------
(* The total of strategy (3) (SpecUsage) *)
\* what the loop holds for key at its end: the number of the last line that
\* carries the label, 0 when no line does
Found(key) ==
    IF Occurrences(key) = {} THEN 0
    ELSE LineDigits(TheRaw[Max(Occurrences(key))])[1]

\* C21: when the result comes from strategy (3), a total that was not found
\* is prompt + completion exactly when both were found (non-zero) and stays 0
\* when only one of them was; when nothing was found the block's parsed_usage
\* stays empty and no token-usage entry is emitted
C21_TotalReconstructedFromBoth ==
    ByStrategy3 =>
        LET p == Found(PromptKey)
            c == Found(CompletionKey)
            t == Found(TotalKey)
            usage == blocks[1].parsed_usage
        IN IF p = 0 /\ c = 0 /\ t = 0
           THEN usage = <<>> /\ token_usage_info = <<>>
           ELSE /\ usage # <<>>
                /\ usage[PromptKey] = p /\ usage[CompletionKey] = c
                /\ usage[TotalKey] = (IF t # 0 THEN t
                                      ELSE IF p # 0 /\ c # 0 THEN p + c ELSE 0)
                /\ Len(token_usage_info) = 1
                /\ token_usage_info[1].total_tokens = usage[TotalKey]

\* C21 witness: prompt and completion found on two lines, no total, and the
\* total of the block is their sum
C21_Witness ==
    /\ ByStrategy3
    /\ Found(PromptKey) = 4 /\ Found(CompletionKey) = 7 /\ Found(TotalKey) = 0
    /\ blocks[1].parsed_usage[TotalKey] = 11
    /\ Len(token_usage_info) = 1


----------------------------------------------------------------------------
(* The workflow graph and the task report on the same blocks (SpecGraph) *)
GraphBlocks ==
    [task_id : {None, Some("a"), Some("b")},
     agent_id : {None, Some(""), Some("r"), Some("q")},
     parsed_usage : {None, TokenUsage(Usage1)}]

GraphInit ==
    /\ FilterIdle
    /\ wf_tasks = <<[task_id |-> "a", dependencies |-> <<>>],
                    [task_id |-> "b", dependencies |-> <<"a">>]>>
    /\ enhanced_blocks \in UNION {[1..n -> GraphBlocks] : n \in 0..MaxWfBlocks}
    /\ nodes = <<>> /\ mermaid_edges = {} /\ mermaid_code = <<>>
    /\ task_report = None /\ agent_report = None
    /\ lines = <<>> /\ blocks = <<>> /\ current_block = NoBlock
    /\ inside_request = FALSE /\ inside_response = FALSE
    /\ token_usage_info = <<>> /\ idx = 0 /\ pc = "wf"
    /\ MatchIdle /\ UaIdle

GraphNext == Reconstruct \/ GenerateMermaidDiagram \/ AnalyzeTaskPerformance

SpecGraph == GraphInit /\ [][GraphNext]_vars

\* the positions of the blocks of task t that carry an agent
Carriers(t) ==
    {i \in BlocksOf(t) : enhanced_blocks[i].agent_id \notin {None, Some("")}}
\* the declaration of node t in the rendered diagram
LineOf(t) ==
    mermaid_code[CHOOSE k \in 1..Len(mermaid_code) :
                    mermaid_code[k].kind = "node" /\ mermaid_code[k].from = t]

\* C22: the agent of a node is the agent_id of the first of its blocks that
\* carries a non-empty one, which need not be the node's first block; the
\* diagram shows "unknown" for a node exactly when none of its blocks does
C22_AgentOfFirstCarryingBlock ==
    pc = "rendered" =>
        \A t \in DOMAIN nodes :
            /\ Carriers(t) = {} <=> LineOf(t).agent = "unknown"
            /\ Carriers(t) = {} <=> NodeAgent(enhanced_blocks, nodes[t]) = None
            /\ Carriers(t) # {} =>
                  /\ LineOf(t).agent = enhanced_blocks[Min(Carriers(t))].agent_id[1]
                  /\ NodeAgent(enhanced_blocks, nodes[t]) =
                        enhanced_blocks[Min(Carriers(t))].agent_id

\* C22 witness: a rendered node whose first block carries no agent and whose
\* second block carries one
C22_Witness ==
    /\ pc = "rendered"
    /\ \E t \in DOMAIN nodes :
          /\ Len(nodes[t].blocks) = 2
          /\ Min(BlocksOf(t)) \notin Carriers(t)
          /\ Carriers(t) # {}
          /\ LineOf(t).agent \in {"r", "q"}

\* the row of task t in the task report
RowOf(t) ==
    task_report[1][CHOOSE k \in 1..Len(task_report[1]) : task_report[1][k].TaskID = t]

\* C27: for every task with blocks, the "Agent" of its row in the task report
\* is the agent of its workflow node ("Unknown" in the row exactly when the
\* node has no agent), and row and node give the same total tokens
C27_ReportAndGraphAgree ==
    (pc \in {"built", "rendered"} /\ task_report # None) =>
        \A t \in DOMAIN nodes :
            LET agent == NodeAgent(enhanced_blocks, nodes[t])
            IN /\ RowOf(t).Agent = "Unknown" <=> agent = None
               /\ agent # None => RowOf(t).Agent = agent[1]
               /\ RowOf(t).TotalTokens = NodeTotalTokens(enhanced_blocks, nodes[t])

-----------------------------------------------------------------------------
(* The returned block dictionaries and the ParsedBlock constructor (SpecSeg) *)

\* models/parsed_block.py lines 6-17: the keyword parameters of __init__
ParsedBlockParams ==
    {"task_hint", "litellm_request", "raw_response", "thought", "action",
     "final_answer", "parsed_usage", "parsing_error", "start_time", "end_time",
     "model", "api_errors"}

\* C25: every block dictionary the parser returns can be passed to
\* ParsedBlock(**block): its keys are all parameters of the constructor
C25_EveryBlockConverts ==
    pc = "returned" =>
        \A i \in 1..Len(blocks) : DOMAIN blocks[i] \subseteq ParsedBlockParams

-----------------------------------------------------------------------------
(* Textual evidence behind a task match (SpecMatch) *)

\* the first two '.'-separated fragments of the lower-cased description that
\* are not empty
Fragments(t) ==
    LET phrases == Take(Split(Lower(t.description), "."), 2)
    IN {phrases[k] : k \in {j \in 1..Len(phrases) : phrases[j] # <<>>}}

Evidence(t) ==
    \/ In(Lower(t.task_id), Lower(block.task_hint))
    \/ \E f \in Fragments(t) : In(f, Lower(block.task_hint))
    \/ /\ t.expected_output # <<>>
       /\ In(Lower(t.expected_output), Lower(block.raw_response))

\* C26: the matcher returns a task only on textual evidence: the hint holds
\* the task's identifier or a non-empty fragment of its description, or the
\* response holds its non-empty expected output; a block with an empty hint
\* and an empty response gets no task
C26_MatchNeedsEvidence ==
    pc = "matched" /\ task_id # None =>
        \E i \in 1..Len(tasks) :
            tasks[i].task_id = task_id[1] /\ Evidence(tasks[i])

-----------------------------------------------------------------------------
(* Group accounting of the unified and the task report (SpecReport) *)

\* the field of a TokenUsage shown in a column of the task report
UsageField(col) ==
    CASE col = "PromptTokens" -> "prompt_tokens"
      [] col = "CompletionTokens" -> "completion_tokens"
      [] col = "TotalTokens" -> "total_tokens"
      [] col = "Cost" -> "cost_usd"

\* the raw sum of a column over the blocks of enhanced_blocks that satisfy P
\* and carry a TokenUsage
RawTaskSum(P(_), col) ==
    Sum([i \in 1..Len(enhanced_blocks) |->
            IF P(enhanced_blocks[i]) /\ enhanced_blocks[i].parsed_usage # None
            THEN enhanced_blocks[i].parsed_usage[1][UsageField(col)]
            ELSE 0])

KeyOf(i) == truncate_task_hint(parsed_blocks[i].task_hint)

\* C30: unified_analysis counts every block in exactly one group, the block
\* counts of the groups sum to the number of input blocks, and the TOTAL row
\* shows the number of blocks with a non-empty final answer over the number
\* of blocks; analyze_task_performance counts every block with a task_id in
\* exactly one task row, and its TOTALS row holds the sums over exactly the
\* blocks that carry both a task_id and a parsed usage
C30_GroupAccounting ==
    /\ report # None =>
          LET rows == GroupRows(report[1])
              total == report[1][Len(report[1])]
          IN /\ \A i \in 1..Len(parsed_blocks) :
                   Cardinality({k \in 1..Len(rows) : rows[k].Task = KeyOf(i)}) = 1
             /\ \A k \in 1..Len(rows) :
                   rows[k].BlockCount =
                      Cardinality({i \in 1..Len(parsed_blocks) : KeyOf(i) = rows[k].Task})
             /\ ColumnSum(rows, "BlockCount") = Len(parsed_blocks)
             /\ total.BlockCount = Len(parsed_blocks)
             /\ total.FinalAnswers = RawAnswers
    /\ task_report # None =>
          LET rows == GroupRows(task_report[1])
              tasked(b) == Truthy(b.task_id)
          IN /\ \A i \in 1..Len(enhanced_blocks) :
                   Cardinality({k \in 1..Len(rows) :
                                   enhanced_blocks[i].task_id = Some(rows[k].TaskID)})
                      = IF tasked(enhanced_blocks[i]) THEN 1 ELSE 0
             /\ \A k \in 1..Len(rows) : \A col \in TokenColumns :
                   LET mine(b) == b.task_id = Some(rows[k].TaskID)
                   IN rows[k][col] = RawTaskSum(mine, col)
             /\ task_report[1] # <<>> =>
                   \A col \in TokenColumns :
                      task_report[1][Len(task_report[1])][col] = RawTaskSum(tasked, col)

\* C30 witness: both reports are made of three blocks, one with an empty
\* final answer, one without a task_id but with a usage, one with a task_id
\* and a usage
C30_Witness ==
    /\ report # None /\ task_report # None
    /\ Len(parsed_blocks) = 3
    /\ \E i \in 1..3 : parsed_blocks[i].final_answer = Some(<<>>)
    /\ \E i \in 1..3 : /\ ~Truthy(enhanced_blocks[i].task_id)
                       /\ enhanced_blocks[i].parsed_usage # None
    /\ report[1][Len(report[1])].BlockCount = 3
    /\ report[1][Len(report[1])].FinalAnswers = 1
    /\ task_report[1] # <<>>
    /\ task_report[1][Len(task_report[1])].TotalTokens > 0

-----------------------------------------------------------------------------
(* Response mode, the routing of a line and the end times (SpecSeg) *)

\* the block being filled while the scan runs
ScanOpen == pc = "scan" /\ IsOpen(current_block)

Buffers(cb) == <<cb.litellm_request, cb.raw_response, cb.api_errors>>

ModeInvariant ==
    /\ ~(inside_request /\ inside_response)
    /\ IsOpen(current_block) => (inside_request # inside_response)

\* what the step that reads one more line may change
RoutedOnce ==
    lines' # lines =>
        LET line == lines'[Len(lines')]
            req == current_block.litellm_request
            raw == current_block.raw_response
            err == current_block.api_errors
        IN /\ SubSeq(blocks', 1, Len(blocks)) = blocks
           /\ IF Contains(line, ReqMarker)
              THEN /\ Buffers(current_block') = <<<<line>>, <<>>, <<>>>>
                   /\ IsOpen(current_block) =>
                         /\ Len(blocks') = Len(blocks) + 1
                         /\ Buffers(blocks'[Len(blocks')]) = Buffers(current_block)
                   /\ ~IsOpen(current_block) => blocks' = blocks
              ELSE /\ blocks' = blocks
                   /\ IsOpen(current_block') = IsOpen(current_block)
                   /\ IsOpen(current_block) =>
                         \/ Buffers(current_block') = <<req, raw, err>>
                         \/ Buffers(current_block') = <<Append(req, line), raw, err>>
                         \/ Buffers(current_block') = <<req, Append(raw, line), err>>
                         \/ Buffers(current_block') = <<req, raw, Append(err, Strip(line))>>

\* C24: inside_request and inside_response are never both true and, while a
\* block is open, exactly one of them is; a line goes to at most one of
\* litellm_request, raw_response and api_errors of the current block, and
\* never to a closed block
C24_ModeInvariant == []ModeInvariant /\ [][RoutedOnce]_vars

\* C24 witness: a closed block, and an open one in response mode that has
\* taken a line in each of its three destinations
C24_Witness ==
    /\ ScanOpen
    /\ blocks # <<>>
    /\ inside_response /\ ~inside_request
    /\ current_block.raw_response # <<>>
    /\ current_block.api_errors # <<>>

\* C28: a block's end_time is the start_time of the next block when the next
\* request-marker line starts with a timestamp, and absent otherwise; the
\* last block has no end_time; start_time is the timestamp of the block's own
\* request-marker line, so an end_time comes from a later line of the log
C28_EndTimesChain ==
    \A i \in 1..Len(Opened) :
        /\ Opened[i].start_time = TimestampMatch(LogPieces[i][1])
        /\ IF i = Len(Opened) THEN Opened[i].end_time = None
           ELSE IF TimestampMatch(LogPieces[i + 1][1]) # None
                THEN /\ Opened[i].end_time = Opened[i + 1].start_time
                     /\ Opened[i].end_time # None
                ELSE Opened[i].end_time = None

\* C28 witness: three returned blocks; the second marker line carries a
\* timestamp, the third does not
C28_Witness ==
    /\ pc = "returned"
    /\ Len(blocks) = 3
    /\ blocks[1].start_time # None
    /\ blocks[1].end_time = blocks[2].start_time
    /\ blocks[1].end_time # None /\ blocks[1].end_time # blocks[1].start_time
    /\ blocks[2].end_time = None
    /\ blocks[3].start_time = None /\ blocks[3].end_time = None

-----------------------------------------------------------------------------
(* filter_tool_logs (utils/log_filter.py).  log_content.split('\n') is the
   sequence lines; idx counts the lines the loop has consumed. *)

\* lines 34 and 40: keep_next_n_lines = 10
KeepNext == 10

TimesUsed == Tok("Times Used: N", 0)     \* "Times Used: " and a numeral
Blob == Tok("json blob", 0)              \* 600 characters with '{' and '}'
LongText == Tok("long text", 0)          \* 400 characters without a brace
ModelTok == Tok("model=", 0)

\* len(line)
TokLength(tok) ==
    IF tok.k = "json blob" THEN 600 ELSE IF tok.k = "long text" THEN 400 ELSE 10
RECURSIVE LineLength(_)
LineLength(line) ==
    IF line = <<>> THEN 0 ELSE TokLength(Head(line)) + LineLength(Tail(line))

\* lines 18-19 and 50: both patterns match exactly the lines that end in
\* "Times Used: " and a numeral
PatternMatches(line) == line # <<>> /\ line[Len(line)] = TimesUsed

\* line 54: '{' in line and '}' in line
HasBraces(line) ==
    /\ \E i \in 1..Len(line) : line[i].k \in {"json blob", BraceOpen, UsageOpen}
    /\ \E i \in 1..Len(line) : line[i].k \in {"json blob", BraceClose}

\* lines 49-69: whether a line outside the kept window is kept
Keeps(line) ==
    IF PatternMatches(line) THEN FALSE
    ELSE IF LineLength(line) > 500 /\ HasBraces(line) THEN FALSE
    ELSE IF Contains(line, UsageOpen) THEN TRUE
    ELSE IF Contains(line, "model=") THEN TRUE
    ELSE LineLength(line) < 300

IsMarker(line) == Contains(line, ReqMarker) \/ Contains(line, RawMarker)

\* lines 32-35
KeepRequestLine ==
    /\ pc = "filter" /\ idx < Len(lines)
    /\ Contains(lines[idx + 1], ReqMarker)
    /\ filtered_lines' = Append(filtered_lines, lines[idx + 1])
    /\ keep_next_n_lines' = KeepNext
    /\ idx' = idx + 1
    /\ UNCHANGED <<lines, blocks, current_block, inside_request, inside_response,
                   token_usage_info, pc>>
    /\ UNCHANGED <<matchVars, uaVars, wfVars>>

\* lines 38-41
KeepResponseLine ==
    /\ pc = "filter" /\ idx < Len(lines)
    /\ ~Contains(lines[idx + 1], ReqMarker)
    /\ Contains(lines[idx + 1], RawMarker)
    /\ filtered_lines' = Append(filtered_lines, lines[idx + 1])
    /\ keep_next_n_lines' = KeepNext
    /\ idx' = idx + 1
    /\ UNCHANGED <<lines, blocks, current_block, inside_request, inside_response,
                   token_usage_info, pc>>
    /\ UNCHANGED <<matchVars, uaVars, wfVars>>

\* lines 44-47
KeepFollowing ==
    /\ pc = "filter" /\ idx < Len(lines)
    /\ ~IsMarker(lines[idx + 1])
    /\ keep_next_n_lines > 0
    /\ filtered_lines' = Append(filtered_lines, lines[idx + 1])
    /\ keep_next_n_lines' = keep_next_n_lines - 1
    /\ idx' = idx + 1
    /\ UNCHANGED <<lines, blocks, current_block, inside_request, inside_response,
                   token_usage_info, pc>>
    /\ UNCHANGED <<matchVars, uaVars, wfVars>>

\* lines 49-69
FilterRest ==
    /\ pc = "filter" /\ idx < Len(lines)
    /\ ~IsMarker(lines[idx + 1])
    /\ keep_next_n_lines = 0
    /\ filtered_lines' = IF Keeps(lines[idx + 1])
                         THEN Append(filtered_lines, lines[idx + 1])
                         ELSE filtered_lines
    /\ idx' = idx + 1
    /\ UNCHANGED <<lines, blocks, current_block, inside_request, inside_response,
                   token_usage_info, pc, keep_next_n_lines>>
    /\ UNCHANGED <<matchVars, uaVars, wfVars>>

\* line 71: '\n'.join(filtered_lines)
JoinFiltered ==
    /\ pc = "filter" /\ idx = Len(lines)
    /\ pc' = "filtered"
    /\ UNCHANGED <<lines, blocks, current_block, inside_request, inside_response,
                   token_usage_info, idx>>
    /\ UNCHANGED <<matchVars, uaVars, wfVars, filterVars>>

\* the lines of the logs handed to the filter
FilterLines ==
    { <<Tok(ReqMarker, 0), W(1)>>,
      <<Tok(RawMarker, 0)>>,
      <<W(1)>>,
      <<W(1), TimesUsed>>,
      <<Blob>>,
      <<LongText>>,
      <<LongText, Tok(UsageOpen, 0)>>,
      <<LongText, ModelTok>>,
      <<Tok(CostMarker, 0), Dots, TimesUsed>> }

\* a section: any line, then a run of tool-count lines that is empty, as long
\* as the kept window, or one line longer
RunLengths == {0, KeepNext, KeepNext + 1}
Section(head, n) == <<head>> \o [i \in 1..n |-> <<W(1), TimesUsed>>]
Sections == {Section(head, n) : head \in FilterLines, n \in RunLengths}

RECURSIVE LogsOf(_)
LogsOf(n) ==
    IF n = 0 THEN {<<>>}
    ELSE LET shorter == LogsOf(n - 1)
         IN shorter \cup {log \o sec : log \in shorter, sec \in Sections}

FilterInit ==
    /\ lines \in LogsOf(MaxSections)
    /\ filtered_lines = <<>> /\ keep_next_n_lines = 0
    /\ idx = 0 /\ pc = "filter"
    /\ blocks = <<>> /\ current_block = NoBlock
    /\ inside_request = FALSE /\ inside_response = FALSE
    /\ token_usage_info = <<>>
    /\ MatchIdle /\ UaIdle /\ WfIdle

FilterNext ==
    \/ KeepRequestLine
    \/ KeepResponseLine
    \/ KeepFollowing
    \/ FilterRest
    \/ JoinFiltered

SpecFilter == FilterInit /\ [][FilterNext]_vars

RECURSIVE IsSubsequence(_, _)
IsSubsequence(a, b) ==
    IF a = <<>> THEN TRUE
    ELSE IF b = <<>> THEN FALSE
    ELSE IF Head(a) = Head(b) THEN IsSubsequence(Tail(a), Tail(b))
    ELSE IsSubsequence(a, Tail(b))

\* a log cut at its request- and response-marker lines; the lines before the
\* first marker are in no piece
RECURSIVE CutAtMarkers(_, _)
CutAtMarkers(acc, ls) ==
    IF ls = <<>> THEN acc
    ELSE IF IsMarker(Head(ls))
         THEN CutAtMarkers(Append(acc, <<Head(ls)>>), Tail(ls))
    ELSE IF acc = <<>> THEN CutAtMarkers(acc, Tail(ls))
    ELSE CutAtMarkers([acc EXCEPT ![Len(acc)] = Append(@, Head(ls))], Tail(ls))

\* the filtered log is a subsequence of the log that keeps every marker line
\* and, after each marker line, the next KeepNext lines up to the next marker
KeepsMarkersAndWindows ==
    LET before == CutAtMarkers(<<>>, lines)
        after == CutAtMarkers(<<>>, filtered_lines)
    IN /\ IsSubsequence(filtered_lines, lines)
       /\ Len(after) = Len(before)
       /\ \A i \in 1..Len(before) :
             LET n == IF Len(before[i]) < KeepNext + 1 THEN Len(before[i])
                      ELSE KeepNext + 1
             IN /\ Len(after[i]) >= n
                /\ SubSeq(after[i], 1, n) = SubSeq(before[i], 1, n)
                /\ IsSubsequence(after[i], before[i])

\* parse_log_file_v2, lines 185-233, on a whole log: the request-marker lines
\* of the blocks in order, or None when float() raises at line 219 on a
\* response_cost line inside a block
SegmentationRaises(ls) ==
    \E j \in 1..Len(ls) :
        /\ ~Contains(ls[j], ReqMarker)
        /\ \E m \in 1..(j - 1) : Contains(ls[m], ReqMarker)
        /\ Contains(ls[j], CostMarker)
        /\ CostMatch(ls[j]) # None
        /\ FloatRaises(CostMatch(ls[j])[1])
Segmented(ls) ==
    IF SegmentationRaises(ls) THEN None
    ELSE LET pieces == Segments(<<>>, ls)
         IN Some([i \in 1..Len(pieces) |-> pieces[i][1]])

\* C29: the output of filter_tool_logs is an order-preserving subsequence of
\* the input lines that keeps every request- and response-marker line and
\* the 10 lines after the most recent one, and segmenting the filtered log
\* gives the same blocks, in the same order, as segmenting the log
C29_FilterPreservesSegmentation ==
    pc = "filtered" =>
        /\ KeepsMarkersAndWindows
        /\ Segmented(filtered_lines) = Segmented(lines)

\* what does hold for C29: the markers and the windows are kept, and the
\* blocks agree whenever segmenting the log does not raise
C29_PreservedWhenSegmentable ==
    pc = "filtered" =>
        /\ KeepsMarkersAndWindows
        /\ ~SegmentationRaises(lines) => Segmented(filtered_lines) = Segmented(lines)

====
